---- MODULE Spec2Model ----
(***************************************************************************)
(* Model of verb-scraper-app.                                               *)
(*   VerbManager.get_or_create_verb_data, process_batch, seed_default_data  *)
(*     (src/services/verb_manager.py) on the SQLite store declared in       *)
(*     src/models/verb.py and src/config.py.  Every database round trip of  *)
(*     get_or_create_verb_data is one action, so that concurrent callers    *)
(*     interleave between any two statements.                               *)
(*   ConjugacaoScraper and CooljugatorScraper get_conjugations              *)
(*     (src/services/scraper.py, src/services/backup_scraper.py).           *)
(*   The API v1 handlers (src/routes/api.py) with InputValidator            *)
(*     (src/services/validator.py).                                         *)
(*   BulkImporter.process_chunk (scripts/api_tools/bulk_importer.py).       *)
(***************************************************************************)
EXTENDS Integers, Sequences, FiniteSets, TLC

(* ------------------------------ bounds --------------------------------- *)
\* concurrent callers, the calls they start in all, the lines a page has
NThreads == 2
MaxCalls == 4
MaxLines == 1
\* the calls that run one after the other, before callers overlap
Warm == 2
\* lock waits that may end in "database is locked"
MaxFaults == 1
\* the sequential caller: its calls, the lines a page has
SeqCalls == 2
SeqLines == 7
\* a batch: the tasks of its list, the lines a page has
MaxTasks == 4
BatchLines == 1
\* the tasks of a batch whose every fair run is followed to its end
FairTasks == 2
\* the caller that scrapes a site whose pages change: its calls, the lines
RevCalls == 3
RevLines == 2
\* the tasks of a task list posted to the batch API
ApiTasks == 2
\* the caller whose store the read API is asked about: its calls, the lines
ReadCalls == 2
ReadLines == 6
\* a page of the primary site: its containers, the elements of a container
MaxContainers == 2
MaxElements == 3
\* the elements of the one container of a flat page of the primary site
FlatElements == 4
\* the polls of one process_chunk
MaxPolls == 3
\* the tasks of a batch whose job_id may name no row
FrameTasks == 2
\* the caller that also seeds the default data: its calls, the lines
SeedCalls == 2
SeedLines == 6

Threads == 1..NThreads

\* mutant: a pool of four workers
FourWorkers == 2 + 2

\* process_batch: ThreadPoolExecutor(max_workers=3)
max_workers == 3

\* the pool's worker threads
Workers == 1..max_workers

\* every thread that runs get_or_create_verb_data, each on its own session
Sessions == Threads \cup Workers

(* ------------------------- program constants --------------------------- *)
\* VerbManager.person_names (canonical person table)
person_names == <<"eu", "tu", "ele/ela/voce", "nos", "vos", "eles/elas/voces">>

\* row reference meaning Python's None
NoRow == 0

\* request inputs the model enumerates
Verbs == {"falar", "ir"}
\* (mode, tense) pairs of InputValidator's whitelist
Grammar == {<<"Indicativo", "Presente">>, <<"Indicativo", "Afirmativo">>,
            <<"Imperativo", "Afirmativo">>}

(* ------------------------------ adapters ------------------------------- *)
\* an adapter result: None, or the ordered list of extracted lines
NoneForms == [none |-> TRUE, lines |-> <<>>]

\* str.lower() on the strings the model passes
Lower(s) ==
    IF s = "FALAR" THEN "falar"
    ELSE IF s = "PT" THEN "pt"
    ELSE IF s = "Indicativo" THEN "indicativo"
    ELSE IF s = "Imperativo" THEN "imperativo"
    ELSE IF s = "Presente" THEN "presente"
    ELSE IF s = "Afirmativo" THEN "afirmativo"
    ELSE s

\* str.strip() on the strings the model passes
StrStrip(s) == IF s = " ir" THEN "ir" ELSE s

\* scraper.py line 42, backup_scraper.py line 51: the verb as the URL of the
\* page names it
UrlVerb(v) == Lower(StrStrip(v))

\* line k of the page of source src for (verb, mode, tense)
Line(src, v, m, t, k) == [src |-> src, verb |-> v, mode |-> m, tense |-> t, k |-> k]

\* the page of n lines an adapter is answered with for the verb: the page
\* its URL names
Page(src, v, m, t, n) ==
    [none |-> FALSE, lines |-> [k \in 1..n |-> Line(src, UrlVerb(v), m, t, k - 1)]]

\* ConjugacaoScraper.get_conjugations: None, or clean_lines (possibly empty)
PrimaryResults(v, m, t, maxlines) ==
    {NoneForms} \cup {Page("primary", v, m, t, n) : n \in 0..maxlines}

\* the primary adapter's answers when the site has published a revised page
\* of the verb since an earlier scrape: the lines differ from the first
\* edition's
RevisedResults(v, m, t, maxlines) ==
    PrimaryResults(v, m, t, maxlines)
        \cup {Page("revised", v, m, t, n) : n \in 1..maxlines}

\* mutant: the table also maps the Imperativo
MapIdsWithImperativo == {<<"Indicativo", "Presente">>, <<"Imperativo", "Afirmativo">>}

\* CooljugatorScraper.map_ids restricted to the modelled modes and tenses
map_ids == {<<"Indicativo", "Presente">>}

\* CooljugatorScraper.get_conjugations: None when the pair is unmapped, the
\* request fails or no cell is found; otherwise 1..6 reconstructed lines
BackupResults(v, m, t, maxlines) ==
    IF <<m, t>> \notin map_ids THEN {NoneForms}
    ELSE {NoneForms} \cup {Page("backup", v, m, t, n) :
                              n \in 1..(IF maxlines < 6 THEN maxlines ELSE 6)}

\* the instance attributes a CooljugatorScraper has after __init__
\* (BaseScraper.__init__: timeout, session; its own: base_url, map_ids)
Attributes == {"timeout", "session", "base_url", "map_ids"}

\* CooljugatorScraper.get_conjugations, line 60: for a mapped pair the call
\* evaluates self.headers; a missing attribute is an AttributeError, which
\* `except requests.RequestException` does not catch
BackupRaises(m, t) == <<m, t>> \in map_ids /\ "headers" \notin Attributes

\* mutant: the primary's answer is always taken for a failure
NotFormsAlways(f) == TRUE

\* Python truthiness test `not forms`
NotForms(f) == f.none \/ Len(f.lines) = 0

\* the GETs one call of the backup adapter issues: none for a pair it does
\* not map (lines 54-57), none when line 60 raises before the request
BackupRequests(m, t) == IF <<m, t>> \in map_ids /\ ~BackupRaises(m, t) THEN 1 ELSE 0

\* line 83: `if not forms` after both sources were tried
AllSourcesFailed(f) == NotForms(f)

\* lines 79-81: the arguments handed to the backup adapter
BackupArgs(v, m, t) == <<v, m, t>>

(* ------------------------------- store --------------------------------- *)
\* the five tables of src/models/verb.py; a table is a set of rows
EmptyStore == [verbs |-> {}, modes |-> {}, tenses |-> {}, persons |-> {}, conjs |-> {}]

StoreUnion(a, b) ==
    [verbs |-> a.verbs \cup b.verbs, modes |-> a.modes \cup b.modes,
     tenses |-> a.tenses \cup b.tenses, persons |-> a.persons \cup b.persons,
     conjs |-> a.conjs \cup b.conjs]

MaxId(rows) == CHOOSE n \in {r.id : r \in rows} : \A r \in rows : r.id <= n

\* integer primary key: SQLite hands out max(rowid) + 1
NextId(rows) == IF rows = {} THEN 1 ELSE MaxId(rows) + 1

\* mutant: the lookup never finds a row
FirstNone(rows) == NoRow

\* Query.first(): the matching row with the lowest rowid, or None
First(rows) ==
    IF rows = {} THEN NoRow
    ELSE CHOOSE n \in {r.id : r \in rows} : \A r \in rows : n <= r.id

\* mutant: the column is declared without unique=True
VerbNotUnique(rows, infinitive) == FALSE

\* Verb.infinitive: unique=True
VerbUniqueViolation(rows, infinitive) == \E r \in rows : r.infinitive = infinitive

\* Mode.name: unique=True
ModeUniqueViolation(rows, name) == \E r \in rows : r.name = name

\* mutant: the column accepts NULL
NullableVerb(c) == FALSE

\* Conjugation.verb_id: nullable=False
NotNullViolation(c) == c.verb_id = NoRow

\* mutant: the offset is keyed on the mode alone
OffsetByModeOnly(lines, mode_name) == IF mode_name = "Imperativo" THEN 1 ELSE 0

\* mutant: the offset is keyed on the list length alone
OffsetByLengthOnly(lines, mode_name) == IF Len(lines) = 5 THEN 1 ELSE 0

\* lines 125-127: the person offset
Offset(lines, mode_name) == IF Len(lines) = 5 /\ mode_name = "Imperativo" THEN 1 ELSE 0

\* mutant: the loop breaks one index early
LoopPcEarlyBreak(lines, offset, i) ==
    IF i >= Len(lines) THEN "commit"
    ELSE IF i + offset >= Len(person_names) - 1 THEN "commit"
    ELSE "personq"

\* lines 129-132: the loop head; where the method goes with loop index i
LoopPc(lines, offset, i) ==
    IF i >= Len(lines) THEN "commit"
    ELSE IF i + offset >= Len(person_names) THEN "commit"
    ELSE "personq"

(* ------------------------------- state --------------------------------- *)
VARIABLES
    db,       \* the committed store (what a fresh connection reads)
    tx,       \* per session: rows flushed in its open transaction
    pending,  \* per session: Conjugation objects added but not yet flushed
    lock,     \* the session holding SQLite's write lock, or 0
    call,     \* per thread: position and locals of get_or_create_verb_data
    hist,     \* per thread: what the running call has seen and done so far
    calls,    \* calls started so far
    faults,   \* lock waits that ended in "database is locked" so far
    job,      \* the committed BatchJob row of the batch, or NoJob
    batch,    \* position and locals of process_batch
    work,     \* per pool worker: the task it runs and how far it is
    fetch,    \* the adapter call under study: its arguments, the answer, the result
    api,      \* the API requests under study and the responses they got
    importer  \* BulkImporter.process_chunk: its position, what it was answered

vars == <<db, tx, pending, lock, call, hist, calls, faults, job, batch, work,
          fetch, api, importer>>

NoArgs == <<"", "", "">>

IdleCall ==
    [pc |-> "idle", verb_infinitive |-> "", mode_name |-> "", tense_name |-> "",
     forms |-> NoneForms, verb |-> NoRow, mode |-> NoRow, tense |-> NoRow,
     person |-> NoRow, i |-> 0, ret |-> FALSE]

\* the previous call of the thread, kept when the new call repeats its inputs
NoPrev == [same |-> FALSE, forms |-> NoneForms, ret |-> FALSE]

\* primary, backup: the adapters' answers; pcalls, bcalls: how often each was
\* called; gets: the HTTP GETs issued; bargs: the backup's arguments; fresh: the committed store held no
\* Conjugation of the verb and tense when the call began; wrote: rows the
\* call has inserted; exc: the exception that sent it to a handler;
\* conflict: the table on which an insert hit a unique constraint
NoHist ==
    [primary |-> NoneForms, backup |-> NoneForms, pcalls |-> 0, bcalls |-> 0,
     gets |-> 0, bargs |-> NoArgs, fresh |-> FALSE, prev |-> NoPrev, wrote |-> 0,
     exc |-> "", conflict |-> ""]

\* no BatchJob row
NoJob ==
    [status |-> "", total_tasks |-> 0, success_count |-> 0, failed_count |-> 0,
     completed_at |-> FALSE, changes |-> 0]

\* BatchJob(total_tasks=n, status="pending") with the column defaults;
\* changes counts the commits that assigned status after the insert
NewJob(n) == [NoJob EXCEPT !.status = "pending", !.total_tasks = n]

\* process_batch is not running. tasks: its list; job_id: whether one was
\* given, id: the id given ("" for None); outcome: per task, where its
\* future stands; collect: the index of the result the caller waits for
\* next; results: the summary
NoBatch ==
    [pc |-> "none", tasks |-> <<>>, job_id |-> FALSE, id |-> "", outcome |-> <<>>,
     collect |-> 1, results |-> [total |-> 0, success |-> 0, failed |-> 0]]

\* the id the new BatchJob row gets (a uuid4 string), and one never issued
JobId == "job-1"
OtherId == "job-0"

\* a pool worker with no task
IdleWorker == [task |-> 0, stage |-> "idle"]

\* task k of the lists the model submits: two verbs in turn, two tasks per
\* (mode, tense)
Task(k) ==
    [verb |-> IF k % 2 = 1 THEN "falar" ELSE "ir",
     mode |-> IF ((k - 1) \div 2) % 2 = 0 THEN "Indicativo" ELSE "Imperativo",
     tense |-> IF ((k - 1) \div 2) % 2 = 0 THEN "Presente" ELSE "Afirmativo"]

\* the task lists the model submits: empty, and 1..maxtasks tasks
BatchTasks(maxtasks) == {[k \in 1..n |-> Task(k)] : n \in 0..maxtasks}

\* no adapter call has been made. site: what the remote site answers to a
\* GET; requests: the GETs issued; result: what get_conjugations returned
NoFetch ==
    [pc |-> "idle", adapter |-> "", verb |-> "", mode |-> "", tense |-> "",
     site |-> [kind |-> "", status |-> 0, page |-> <<>>], requests |-> 0,
     result |-> NoneForms]

\* no response: nothing was asked yet
NoResponse == [id |-> "", code |-> 0, body |-> <<>>]

\* no API request was made. post: the POST /api/v1/batch request, its body,
\* the status and job_id it was answered with; status: the last answer of
\* GET /api/v1/batch/<id>; read: the last answer of GET /api/v1/verbs/<inf>
NoApi ==
    [post |-> [pc |-> "none", body |-> <<>>, code |-> 0, job_id |-> ""],
     status |-> NoResponse,
     read |-> [args |-> [infinitive |-> "", dialect |-> "", mode |-> "", tense |-> ""],
               code |-> 0, body |-> <<>>]]

\* process_chunk was not called. post: the answer to its POST; seen: the
\* answers to its polls, in order; failed_jobs: the ids recorded; exports:
\* the GET /export-batch requests made; chunks: the CSV texts kept; ret:
\* the value returned
NoImport ==
    [pc |-> "idle", post |-> [kind |-> "", status |-> 0, job_id |-> ""], seen |-> <<>>,
     failed_jobs |-> {}, exports |-> 0, chunks |-> 0, ret |-> FALSE]

Init ==
    /\ db = EmptyStore
    /\ tx = [t \in Sessions |-> EmptyStore]
    /\ pending = [t \in Sessions |-> <<>>]
    /\ lock = 0
    /\ call = [t \in Sessions |-> IdleCall]
    /\ hist = [t \in Sessions |-> NoHist]
    /\ calls = 0
    /\ faults = 0
    /\ job = NoJob
    /\ batch = NoBatch
    /\ work = [w \in Workers |-> IdleWorker]
    /\ fetch = NoFetch
    /\ api = NoApi
    /\ importer = NoImport

\* what session t reads: committed rows and the rows of its own transaction
Visible(t) == StoreUnion(db, tx[t])

\* lines 125-127 for the running call of thread t
offset(t) == Offset(call[t].forms.lines, call[t].mode_name)

\* a write statement of session t can take SQLite's lock
CanWrite(t) == lock \in {0, t}

\* a write statement of session t waits for the lock; the wait may end in
\* OperationalError "database is locked"
LockTimeout(t) == ~CanWrite(t) /\ faults < MaxFaults

SetCall(t, c) == call' = [call EXCEPT ![t] = c]
SetHist(t, h) == hist' = [hist EXCEPT ![t] = h]

\* mutant: the handler returns without rolling back
RollbackForgotten(txn) == txn

\* Session.rollback(): the transaction's rows and the unflushed objects go
Rollback(txn) == EmptyStore

(* --------------------- get_or_create_verb_data ------------------------- *)
\* the row with the given id
Row(rows, id) == CHOOSE r \in rows : r.id = id

\* the store holds a Conjugation of verb v in tense n of mode m
HasConj(store, v, m, n) ==
    \E c \in store.conjs :
        /\ \E r \in store.verbs : r.id = c.verb_id /\ r.infinitive = v
        /\ \E r \in store.tenses :
              /\ r.id = c.tense_id /\ r.name = n
              /\ \E q \in store.modes : q.id = r.mode_id /\ q.name = m

\* how a write statement of session t ends: it runs, or its wait for the lock
\* ends in "database is locked"; with neither, the statement keeps waiting
WriteOutcomes(t) ==
    IF CanWrite(t) THEN {"ok"} ELSE IF LockTimeout(t) THEN {"locked"} ELSE {}

\* an exception leaves the try block for the handler at pc h
Raise(t, h, kind, table) ==
    /\ SetCall(t, [call[t] EXCEPT !.pc = h])
    /\ SetHist(t, [hist[t] EXCEPT !.exc = kind,
                                  !.conflict = IF table = "" THEN @ ELSE table])
    /\ faults' = IF kind = "locked" THEN faults + 1 ELSE faults
    /\ lock' = IF kind = "locked" THEN lock ELSE t

\* a caller enters the method (lines 44-66)
Call(t, maxcalls, warm) ==
    /\ call[t].pc \in {"idle", "done", "raised"}
    /\ calls < maxcalls
    /\ calls < warm => t = 1
    /\ calls = warm => \A u \in Threads : call[u].pc = "idle"
    /\ \E v \in Verbs, g \in Grammar :
       LET m == g[1]
           n == g[2] IN
        /\ SetCall(t, [IdleCall EXCEPT !.pc = "primary", !.verb_infinitive = v,
                                       !.mode_name = m, !.tense_name = n])
        /\ SetHist(t, [NoHist EXCEPT
                !.fresh = ~HasConj(db, v, m, n),
                !.prev = IF call[t].pc = "done"
                            /\ <<v, m, n>> = <<call[t].verb_infinitive,
                                               call[t].mode_name, call[t].tense_name>>
                         THEN [same |-> TRUE, forms |-> call[t].forms, ret |-> call[t].ret]
                         ELSE NoPrev])
    /\ calls' = calls + 1
    /\ UNCHANGED <<db, tx, pending, lock, faults, job, batch, work, fetch, api, importer>>

\* lines 69-74: the primary adapter answers
Primary(t, maxlines) ==
    /\ call[t].pc = "primary"
    /\ \E f \in PrimaryResults(call[t].verb_infinitive, call[t].mode_name,
                               call[t].tense_name, maxlines) :
        /\ SetCall(t, [call[t] EXCEPT !.forms = f,
                                      !.pc = IF NotForms(f) THEN "backup" ELSE "verbq"])
        /\ SetHist(t, [hist[t] EXCEPT !.primary = f, !.pcalls = @ + 1, !.gets = @ + 1])
    /\ UNCHANGED <<db, tx, pending, lock, calls, faults, job, batch, work, fetch, api, importer>>

\* lines 69-74: the primary adapter answers from a site whose pages change
\* between the calls
PrimaryRevised(t, maxlines) ==
    /\ call[t].pc = "primary"
    /\ \E f \in RevisedResults(call[t].verb_infinitive, call[t].mode_name,
                               call[t].tense_name, maxlines) :
        /\ SetCall(t, [call[t] EXCEPT !.forms = f,
                                      !.pc = IF NotForms(f) THEN "backup" ELSE "verbq"])
        /\ SetHist(t, [hist[t] EXCEPT !.primary = f, !.pcalls = @ + 1, !.gets = @ + 1])
    /\ UNCHANGED <<db, tx, pending, lock, calls, faults, job, batch, work, fetch, api, importer>>

\* lines 79-90: the backup adapter is called outside the try block: what it
\* raises leaves the method; when it answers with no forms the method
\* returns False
Backup(t, maxlines) ==
    /\ call[t].pc = "backup"
    /\ LET a == BackupArgs(call[t].verb_infinitive, call[t].mode_name, call[t].tense_name) IN
       IF BackupRaises(a[2], a[3])
       THEN /\ SetCall(t, [call[t] EXCEPT !.pc = "raised"])
            /\ SetHist(t, [hist[t] EXCEPT !.bcalls = @ + 1, !.bargs = a,
                                          !.gets = @ + BackupRequests(a[2], a[3]),
                                          !.exc = "attribute"])
       ELSE \E f \in BackupResults(a[1], a[2], a[3], maxlines) :
            /\ SetCall(t, [call[t] EXCEPT !.forms = f,
                                          !.pc = IF AllSourcesFailed(f) THEN "done" ELSE "verbq",
                                          !.ret = FALSE])
            /\ SetHist(t, [hist[t] EXCEPT !.backup = f, !.bcalls = @ + 1, !.bargs = a,
                                          !.gets = @ + BackupRequests(a[2], a[3])])
    /\ UNCHANGED <<db, tx, pending, lock, calls, faults, job, batch, work, fetch, api, importer>>

\* line 94: Verb.query.filter_by(infinitive=...).first()
VerbQuery(t) ==
    /\ call[t].pc = "verbq"
    /\ LET found == First({r \in Visible(t).verbs : r.infinitive = call[t].verb_infinitive}) IN
       SetCall(t, [call[t] EXCEPT !.verb = found,
                                  !.pc = IF found = NoRow THEN "verbins" ELSE "modeq"])
    /\ UNCHANGED <<db, tx, pending, lock, hist, calls, faults, job, batch, work, fetch, api, importer>>

\* lines 97-101: add the Verb and flush; whatever the INSERT raises goes to
\* the inner handler
VerbInsert(t) ==
    /\ call[t].pc = "verbins"
    /\ \E o \in WriteOutcomes(t) :
        IF o = "locked"
        THEN Raise(t, "verbexc", "locked", "") /\ UNCHANGED tx
        ELSE IF VerbUniqueViolation(Visible(t).verbs, call[t].verb_infinitive)
        THEN Raise(t, "verbexc", "unique", "verbs") /\ UNCHANGED tx
        ELSE LET id == NextId(Visible(t).verbs) IN
             /\ tx' = [tx EXCEPT ![t].verbs = @ \cup
                           {[id |-> id, infinitive |-> call[t].verb_infinitive]}]
             /\ SetCall(t, [call[t] EXCEPT !.verb = id, !.pc = "modeq"])
             /\ SetHist(t, [hist[t] EXCEPT !.wrote = @ + 1])
             /\ lock' = t
             /\ UNCHANGED faults
    /\ UNCHANGED <<db, pending, calls, job, batch, work, fetch, api, importer>>

\* line 103: the inner handler rolls the session back
VerbRollback(t) ==
    /\ call[t].pc = "verbexc"
    /\ tx' = [tx EXCEPT ![t] = Rollback(tx[t])]
    /\ pending' = [pending EXCEPT ![t] = <<>>]
    /\ lock' = IF lock = t THEN 0 ELSE lock
    /\ SetCall(t, [call[t] EXCEPT !.pc = "verbreq"])
    /\ UNCHANGED <<db, hist, calls, faults, job, batch, work, fetch, api, importer>>

\* line 104: ... and reads the Verb again (None when nobody committed it)
VerbRequery(t) ==
    /\ call[t].pc = "verbreq"
    /\ LET found == First({r \in Visible(t).verbs : r.infinitive = call[t].verb_infinitive}) IN
       SetCall(t, [call[t] EXCEPT !.verb = found, !.pc = "modeq"])
    /\ UNCHANGED <<db, tx, pending, lock, hist, calls, faults, job, batch, work, fetch, api, importer>>

\* line 110: Mode.query.filter_by(name=...).first()
ModeQuery(t) ==
    /\ call[t].pc = "modeq"
    /\ LET found == First({r \in Visible(t).modes : r.name = call[t].mode_name}) IN
       SetCall(t, [call[t] EXCEPT !.mode = found,
                                  !.pc = IF found = NoRow THEN "modeins" ELSE "tenseq"])
    /\ UNCHANGED <<db, tx, pending, lock, hist, calls, faults, job, batch, work, fetch, api, importer>>

\* lines 112-114: add the Mode and flush; an error reaches the outer handler
ModeInsert(t) ==
    /\ call[t].pc = "modeins"
    /\ \E o \in WriteOutcomes(t) :
        IF o = "locked"
        THEN Raise(t, "except", "locked", "") /\ UNCHANGED tx
        ELSE IF ModeUniqueViolation(Visible(t).modes, call[t].mode_name)
        THEN Raise(t, "except", "unique", "modes") /\ UNCHANGED tx
        ELSE LET id == NextId(Visible(t).modes) IN
             /\ tx' = [tx EXCEPT ![t].modes = @ \cup
                           {[id |-> id, name |-> call[t].mode_name]}]
             /\ SetCall(t, [call[t] EXCEPT !.mode = id, !.pc = "tenseq"])
             /\ SetHist(t, [hist[t] EXCEPT !.wrote = @ + 1])
             /\ lock' = t
             /\ UNCHANGED faults
    /\ UNCHANGED <<db, pending, calls, job, batch, work, fetch, api, importer>>

\* line 117: Tense.query.filter_by(name=..., mode=mode).first(); when the
\* Tense exists the flush of line 122 has nothing to write
TenseQuery(t) ==
    /\ call[t].pc = "tenseq"
    /\ LET found == First({r \in Visible(t).tenses :
                            r.name = call[t].tense_name /\ r.mode_id = call[t].mode}) IN
       SetCall(t, [call[t] EXCEPT !.tense = found, !.i = 0,
                                  !.pc = IF found = NoRow THEN "tenseins"
                                         ELSE LoopPc(call[t].forms.lines, offset(t), 0)])
    /\ UNCHANGED <<db, tx, pending, lock, hist, calls, faults, job, batch, work, fetch, api, importer>>

\* lines 119-122: add the Tense and flush (tenses has no unique constraint)
TenseInsert(t) ==
    /\ call[t].pc = "tenseins"
    /\ \E o \in WriteOutcomes(t) :
        IF o = "locked"
        THEN Raise(t, "except", "locked", "") /\ UNCHANGED tx
        ELSE LET id == NextId(Visible(t).tenses) IN
             /\ tx' = [tx EXCEPT ![t].tenses = @ \cup
                           {[id |-> id, name |-> call[t].tense_name, mode_id |-> call[t].mode]}]
             /\ SetCall(t, [call[t] EXCEPT !.tense = id, !.i = 0,
                                           !.pc = LoopPc(call[t].forms.lines, offset(t), 0)])
             /\ SetHist(t, [hist[t] EXCEPT !.wrote = @ + 1])
             /\ lock' = t
             /\ UNCHANGED faults
    /\ UNCHANGED <<db, pending, calls, job, batch, work, fetch, api, importer>>

\* Session.flush() of the pending Conjugations: each takes the next rowid
RECURSIVE FlushConjs(_, _)
FlushConjs(rows, pend) ==
    IF pend = <<>> THEN rows
    ELSE FlushConjs(rows \cup {[id |-> NextId(rows), value |-> Head(pend).value,
                                verb_id |-> Head(pend).verb_id,
                                tense_id |-> Head(pend).tense_id,
                                person_id |-> Head(pend).person_id]},
                    Tail(pend))

\* how the flush before a query or a commit ends in session t
FlushOutcomes(t) ==
    IF pending[t] = <<>> THEN {"none"}
    ELSE IF ~CanWrite(t) THEN (IF LockTimeout(t) THEN {"locked"} ELSE {})
    ELSE IF \E k \in 1..Len(pending[t]) : NotNullViolation(pending[t][k]) THEN {"notnull"}
    ELSE {"ok"}

\* the session's transaction after the flush
Flushed(t) ==
    [tx[t] EXCEPT !.conjs = FlushConjs(Visible(t).conjs, pending[t]) \ db.conjs]

\* line 135: Person.query.filter_by(name=p_name).first(), which first
\* flushes the Conjugation added in the previous round (autoflush)
PersonQuery(t) ==
    /\ call[t].pc = "personq"
    /\ \E o \in FlushOutcomes(t) :
        IF o \in {"locked", "notnull"}
        THEN Raise(t, "except", o, "") /\ UNCHANGED <<tx, pending>>
        ELSE LET p_name == person_names[call[t].i + offset(t) + 1]
                 found == First({r \in db.persons \cup Flushed(t).persons : r.name = p_name}) IN
             /\ SetCall(t, [call[t] EXCEPT !.person = found,
                                           !.pc = IF found = NoRow THEN "personins" ELSE "conjq"])
             /\ tx' = [tx EXCEPT ![t] = Flushed(t)]
             /\ pending' = [pending EXCEPT ![t] = <<>>]
             /\ lock' = IF o = "ok" THEN t ELSE lock
             /\ SetHist(t, [hist[t] EXCEPT !.wrote = @ + Len(pending[t])])
             /\ UNCHANGED faults
    /\ UNCHANGED <<db, calls, job, batch, work, fetch, api, importer>>

\* lines 137-139: add the Person and flush (persons has no unique constraint)
PersonInsert(t) ==
    /\ call[t].pc = "personins"
    /\ \E o \in WriteOutcomes(t) :
        IF o = "locked"
        THEN Raise(t, "except", "locked", "") /\ UNCHANGED tx
        ELSE LET id == NextId(Visible(t).persons)
                 p_index == call[t].i + offset(t) IN
             /\ tx' = [tx EXCEPT ![t].persons = @ \cup
                           {[id |-> id, name |-> person_names[p_index + 1],
                             sort_order |-> p_index]}]
             /\ SetCall(t, [call[t] EXCEPT !.person = id, !.pc = "conjq"])
             /\ SetHist(t, [hist[t] EXCEPT !.wrote = @ + 1])
             /\ lock' = t
             /\ UNCHANGED faults
    /\ UNCHANGED <<db, pending, calls, job, batch, work, fetch, api, importer>>

\* mutant: the lookup never finds the row
ConjNeverExists(rows, verb, tense, person) == FALSE

\* lines 141-143: is there a Conjugation for (verb, tense, person)?
ConjExists(rows, verb, tense, person) ==
    \E r \in rows : r.verb_id = verb /\ r.tense_id = tense /\ r.person_id = person

\* lines 141-149: look the Conjugation up and add it when it is missing (the
\* object stays pending until the next flush), then the loop head (129-132)
ConjQuery(t) ==
    /\ call[t].pc = "conjq"
    /\ pending' = [pending EXCEPT ![t] =
            IF ConjExists(Visible(t).conjs, call[t].verb, call[t].tense, call[t].person)
            THEN @
            ELSE Append(@, [value |-> call[t].forms.lines[call[t].i + 1],
                            verb_id |-> call[t].verb, tense_id |-> call[t].tense,
                            person_id |-> call[t].person])]
    /\ SetCall(t, [call[t] EXCEPT !.i = @ + 1,
                                  !.pc = LoopPc(call[t].forms.lines, offset(t), call[t].i + 1)])
    /\ UNCHANGED <<db, tx, lock, hist, calls, faults, job, batch, work, fetch, api, importer>>

\* lines 151-158: flush what is pending, commit, return True
Commit(t) ==
    /\ call[t].pc = "commit"
    /\ \E o \in FlushOutcomes(t) :
        IF o \in {"locked", "notnull"}
        THEN Raise(t, "except", o, "") /\ UNCHANGED <<db, tx, pending>>
        ELSE /\ db' = StoreUnion(db, Flushed(t))
             /\ tx' = [tx EXCEPT ![t] = EmptyStore]
             /\ pending' = [pending EXCEPT ![t] = <<>>]
             /\ lock' = IF lock = t \/ o = "ok" THEN 0 ELSE lock
             /\ SetCall(t, [call[t] EXCEPT !.pc = "done", !.ret = TRUE])
             /\ SetHist(t, [hist[t] EXCEPT !.wrote = @ + Len(pending[t])])
             /\ UNCHANGED faults
    /\ UNCHANGED <<calls, job, batch, work, fetch, api, importer>>

\* lines 160-163: the outer handler rolls back and returns False
Except(t) ==
    /\ call[t].pc = "except"
    /\ tx' = [tx EXCEPT ![t] = Rollback(tx[t])]
    /\ pending' = [pending EXCEPT ![t] = <<>>]
    /\ lock' = IF lock = t THEN 0 ELSE lock
    /\ SetCall(t, [call[t] EXCEPT !.pc = "done", !.ret = FALSE])
    /\ UNCHANGED <<db, hist, calls, faults, job, batch, work, fetch, api, importer>>

\* the caller has taken the result: the frame of the call is gone
Return(t) ==
    /\ call[t].pc \in {"done", "raised"}
    /\ SetCall(t, IdleCall)
    /\ SetHist(t, NoHist)
    /\ UNCHANGED <<db, tx, pending, lock, calls, faults, job, batch, work, fetch, api, importer>>

(* -------------------------- seed_default_data -------------------------- *)
\* lines 232, 245, 254: the verb, mode and tense of the seed
SeedVerb == "comer"
SeedMode == "Indicativo"
SeedTense == "Presente"

\* lines 262-277: the loop over seed_data from entry k on: the Person is
\* looked up by name and added with sort_order=0 when it is missing; a
\* Conjugation is added for it
RECURSIVE SeedConjugations(_, _, _, _)
SeedConjugations(store, verb, tense, k) ==
    IF k > Len(person_names) THEN store
    ELSE LET found == First({r \in store.persons : r.name = person_names[k]})
             person == IF found = NoRow THEN NextId(store.persons) ELSE found
             persons == IF found = NoRow
                        THEN store.persons \cup
                                {[id |-> person, name |-> person_names[k], sort_order |-> 0]}
                        ELSE store.persons
             conj == [id |-> NextId(store.conjs),
                      value |-> Line("seed", SeedVerb, SeedMode, SeedTense, k - 1),
                      verb_id |-> verb, tense_id |-> tense, person_id |-> person] IN
         SeedConjugations([store EXCEPT !.persons = persons, !.conjs = @ \cup {conj}],
                          verb, tense, k + 1)

\* lines 241-259: the Verb is added, the Mode and the Tense are looked up
\* and added when missing
SeedCore(store) ==
    LET verb == NextId(store.verbs)
        mfound == First({r \in store.modes : r.name = SeedMode})
        mode == IF mfound = NoRow THEN NextId(store.modes) ELSE mfound
        tfound == First({r \in store.tenses : r.name = SeedTense /\ r.mode_id = mode})
        tense == IF tfound = NoRow THEN NextId(store.tenses) ELSE tfound IN
    [store EXCEPT
        !.verbs = @ \cup {[id |-> verb, infinitive |-> SeedVerb]},
        !.modes = IF mfound = NoRow THEN @ \cup {[id |-> mode, name |-> SeedMode]} ELSE @,
        !.tenses = IF tfound = NoRow
                   THEN @ \cup {[id |-> tense, name |-> SeedTense, mode_id |-> mode]}
                   ELSE @]

\* VerbManager.seed_default_data, lines 227-283, called while no other
\* session writes: when the seed verb exists the method returns at line
\* 236 and changes nothing; otherwise it adds its rows and commits
SeedDefaultData ==
    /\ call[1].pc \in {"idle", "done"}
    /\ lock = 0
    /\ First({r \in db.verbs : r.infinitive = SeedVerb}) = NoRow
    /\ LET core == SeedCore(db)
           verb == First({r \in core.verbs : r.infinitive = SeedVerb})
           mode == First({r \in core.modes : r.name = SeedMode})
           tense == First({r \in core.tenses : r.name = SeedTense /\ r.mode_id = mode}) IN
       db' = SeedConjugations(core, verb, tense, 1)
    /\ UNCHANGED <<tx, pending, lock, call, hist, calls, faults, job, batch, work, fetch, api, importer>>

(* --------------------------- process_batch ----------------------------- *)
\* db.session.get(BatchJob, id), BatchJob.query.get(id): the row, or NoJob
\* for None
BatchJobGet(id) == IF id = JobId /\ job # NoJob THEN job ELSE NoJob

\* mutant: every task is counted, whatever its outcome
CountAll(outcome, o) == Len(outcome)

\* lines 205-206, outcomes.count(o): the number of tasks whose outcome is o
Count(outcome, o) == Cardinality({k \in 1..Len(outcome) : outcome[k] = o})

\* the tasks still waiting in the pool's queue
Queued == {k \in 1..Len(batch.outcome) : batch.outcome[k] = "queued"}

\* the tasks a worker is executing (threaded_task has started, not ended)
Executing == {k \in 1..Len(batch.outcome) : batch.outcome[k] \in {"sleeping", "calling"}}

\* mutant: the pool runs tasks as soon as process_batch is entered
SubmittedEarly == batch.pc \in {"processing", "map", "collect", "unwind"}

\* line 203: executor.map has handed the tasks to the pool
Submitted == batch.pc \in {"collect", "unwind"}

\* mutant: the failed count is not stored
CompletedJobSuccessOnly(j, success, failed) ==
    [j EXCEPT !.status = "completed", !.success_count = success,
              !.completed_at = TRUE, !.changes = @ + 1]

\* mutant: the completion time is not stamped
CompletedJobNoTime(j, success, failed) ==
    [j EXCEPT !.status = "completed", !.success_count = success,
              !.failed_count = failed, !.changes = @ + 1]

\* lines 213-217: the job row after the final commit
CompletedJob(j, success, failed) ==
    [j EXCEPT !.status = "completed", !.success_count = success,
              !.failed_count = failed, !.completed_at = TRUE, !.changes = @ + 1]

\* a caller creates the BatchJob (api.py lines 208-210) or passes no job_id
\* (main.py line 257), and calls process_batch; line 178 sets the total
StartBatch(maxtasks) ==
    /\ batch.pc = "none"
    /\ \E tasks \in BatchTasks(maxtasks), job_id \in BOOLEAN :
        /\ job' = IF job_id THEN NewJob(Len(tasks)) ELSE NoJob
        /\ batch' = [NoBatch EXCEPT !.pc = "processing", !.tasks = tasks,
                                    !.job_id = job_id,
                                    !.id = IF job_id THEN JobId ELSE "",
                                    !.outcome = [k \in 1..Len(tasks) |-> "queued"],
                                    !.results.total = Len(tasks)]
    /\ UNCHANGED <<db, tx, pending, lock, call, hist, calls, faults, work, fetch, api, importer>>

\* process_batch is called with any job_id: none, the id of the row of the
\* table, or an id that names no row; the table holds the row a POST has
\* committed for the tasks, or no row
ProcessBatch(maxtasks) ==
    /\ batch.pc = "none"
    /\ \E tasks \in BatchTasks(maxtasks), id \in {"", JobId, OtherId}, row \in BOOLEAN :
        /\ job' = IF row THEN NewJob(Len(tasks)) ELSE NoJob
        /\ batch' = [NoBatch EXCEPT !.pc = "processing", !.tasks = tasks,
                                    !.job_id = (id # ""), !.id = id,
                                    !.outcome = [k \in 1..Len(tasks) |-> "queued"],
                                    !.results.total = Len(tasks)]
    /\ UNCHANGED <<db, tx, pending, lock, call, hist, calls, faults, work, fetch, api, importer>>

\* lines 182-188: the job, when the id names one, is committed as
\* "processing"
JobProcessing ==
    /\ batch.pc = "processing"
    /\ lock = 0
    /\ job' = IF batch.job_id /\ BatchJobGet(batch.id) # NoJob
              THEN [job EXCEPT !.status = "processing", !.changes = @ + 1]
              ELSE job
    /\ batch' = [batch EXCEPT !.pc = "map"]
    /\ UNCHANGED <<db, tx, pending, lock, call, hist, calls, faults, work, fetch, api, importer>>

\* lines 202-203: executor.map submits every task; the caller then waits
\* for the results in the order of the list
Dispatch ==
    /\ batch.pc = "map"
    /\ batch' = [batch EXCEPT !.pc = "collect"]
    /\ UNCHANGED <<db, tx, pending, lock, call, hist, calls, faults, job, work, fetch, api, importer>>

\* an idle pool worker takes the first queued task and enters threaded_task
\* (line 193: the jitter sleep)
Take(w) ==
    /\ Submitted
    /\ work[w].stage = "idle"
    /\ Queued # {}
    /\ LET k == CHOOSE i \in Queued : \A j \in Queued : i <= j IN
        /\ work' = [work EXCEPT ![w] = [task |-> k, stage |-> "sleep"]]
        /\ batch' = [batch EXCEPT !.outcome[k] = "sleeping"]
    /\ UNCHANGED <<db, tx, pending, lock, call, hist, calls, faults, job, fetch, api, importer>>

\* lines 195-198: the worker enters get_or_create_verb_data in a fresh
\* application context
TaskCall(w) ==
    /\ work[w].stage = "sleep"
    /\ LET task == batch.tasks[work[w].task] IN
        /\ SetCall(w, [IdleCall EXCEPT !.pc = "primary", !.verb_infinitive = task.verb,
                                       !.mode_name = task.mode, !.tense_name = task.tense])
        /\ SetHist(w, [NoHist EXCEPT
                !.fresh = ~HasConj(db, task.verb, task.mode, task.tense)])
    /\ work' = [work EXCEPT ![w].stage = "call"]
    /\ batch' = [batch EXCEPT !.outcome[work[w].task] = "calling"]
    /\ UNCHANGED <<db, tx, pending, lock, calls, faults, job, fetch, api, importer>>

\* lines 195-198: the call ends; its boolean or its exception becomes the
\* result of the task's future, and the worker is free again
TaskEnd(w) ==
    /\ work[w].stage = "call"
    /\ call[w].pc \in {"done", "raised"}
    /\ batch' = [batch EXCEPT !.outcome[work[w].task] =
                    IF call[w].pc = "raised" THEN "raised"
                    ELSE IF call[w].ret THEN "true" ELSE "false"]
    /\ work' = [work EXCEPT ![w] = IdleWorker]
    /\ SetCall(w, IdleCall)
    /\ SetHist(w, NoHist)
    /\ UNCHANGED <<db, tx, pending, lock, calls, faults, job, fetch, api, importer>>

\* line 203, list(executor.map(...)): the caller takes the next result in
\* list order; a result that is an exception is raised again, and the
\* iterator cancels every future that has not started
Collect ==
    /\ batch.pc = "collect"
    /\ LET k == batch.collect IN
        IF k > Len(batch.tasks)
        THEN batch' = [batch EXCEPT !.pc = "count"]
        ELSE /\ batch.outcome[k] \in {"true", "false", "raised"}
             /\ batch' =
                  IF batch.outcome[k] = "raised"
                  THEN [batch EXCEPT !.pc = "unwind",
                            !.outcome = [i \in 1..Len(batch.outcome) |->
                                IF batch.outcome[i] = "queued" THEN "cancelled"
                                ELSE batch.outcome[i]]]
                  ELSE [batch EXCEPT !.collect = k + 1]
    /\ UNCHANGED <<db, tx, pending, lock, call, hist, calls, faults, job, work, fetch, api, importer>>

\* line 202, leaving the with block on an exception: shutdown(wait=True)
\* waits for the running tasks, then process_batch raises to its caller
Unwind ==
    /\ batch.pc = "unwind"
    /\ \A w \in Workers : work[w].stage = "idle"
    /\ batch' = [batch EXCEPT !.pc = "raised"]
    /\ UNCHANGED <<db, tx, pending, lock, call, hist, calls, faults, job, work, fetch, api, importer>>

\* lines 205-225: count the outcomes, commit the job as "completed" with
\* its counts and completion time, return the summary
Complete ==
    /\ batch.pc = "count"
    /\ lock = 0
    /\ LET success == Count(batch.outcome, "true")
           failed == Count(batch.outcome, "false") IN
        /\ batch' = [batch EXCEPT !.pc = "returned", !.results.success = success,
                                  !.results.failed = failed]
        /\ job' = IF batch.job_id /\ BatchJobGet(batch.id) # NoJob
                  THEN CompletedJob(job, success, failed)
                  ELSE job
    /\ UNCHANGED <<db, tx, pending, lock, call, hist, calls, faults, work, fetch, api, importer>>

(* --------------------------- get_conjugations -------------------------- *)
\* the elements of a page of the primary site: a mode heading, a tense
\* heading, a paragraph given by the parts its <br> tags separate
H3(text) == [tag |-> "h3", text |-> text, parts |-> <<>>]
H4(text) == [tag |-> "h4", text |-> text, parts |-> <<>>]
P(parts) == [tag |-> "p", text |-> "", parts |-> parts]

\* a text is a sequence of characters; the model writes a word (a run
\* of characters that are not whitespace) as one character, and " " for a
\* whitespace character
Word(w) == <<w>>
Blank == <<" ">>

\* a part of a paragraph (what lies between two <br> tags) is the sequence
\* of its text nodes: no node, a node of whitespace, the flat text
\* "eu falo", and the markup 'tu <b>falas</b>' with the nodes "tu " and
\* "falas"
NoText == <<>>
Spaces == <<Blank>>
Flat == <<Word("eu") \o Blank \o Word("falo")>>
Nested == <<Word("tu") \o Blank, Word("falas")>>

\* the elements the model builds pages from
Elements ==
    {H3("Indicativo"), H3("Imperativo"), H4("Presente"), H4("Afirmativo"),
     P(<<Spaces, NoText>>), P(<<Flat, Spaces, Nested, NoText>>)}

\* a container: the children of one parent element, in document order
Containers == UNION {[1..n -> Elements] : n \in 0..MaxElements}

\* a page of the primary site: its containers, in document order; also the
\* pages of one container of FlatElements elements, on which the headings
\* of two modes and a block of a tense are children of one parent
PrimaryPages ==
    UNION {[1..n -> Containers] : n \in 0..MaxContainers}
        \cup {<<c>> : c \in [1..FlatElements -> Elements]}

\* a page of the backup site: per position 1..6, whether the cell
\* '<tense-id><i>' is missing, has no .meta-form element, or has a verb form
BackupPages == [1..6 -> {"nocell", "noform", "form"}]

\* what a GET can end in: a timeout, a connection error, or a status
Failures ==
    {[kind |-> k, status |-> 0, page |-> <<>>] : k \in {"timeout", "connection"}}
        \cup {[kind |-> "status", status |-> c, page |-> <<>>] : c \in {404, 500}}

\* what the site of an adapter may answer to the GET
Sites(adapter) ==
    Failures \cup {[kind |-> "status", status |-> 200, page |-> p] :
                     p \in IF adapter = "primary" THEN PrimaryPages ELSE BackupPages}

\* Response.raise_for_status(): HTTPError for a 4xx or 5xx status
RaiseForStatus(status) == 400 <= status /\ status < 600

\* lines 45-50 (backup: 59-64): the GET raised a RequestException
RequestFailed(site) ==
    IF site.kind = "status" THEN RaiseForStatus(site.status) ELSE TRUE

Min(S) == CHOOSE n \in S : \A k \in S : n <= k

\* lines 61-63: the containers (parents) of the h3 headings whose text is
\* the mode
ModeHeaders(page, mode) ==
    {c \in 1..Len(page) :
        \E e \in 1..Len(page[c]) : page[c][e].tag = "h3" /\ page[c][e].text = mode}

\* mutant: the first h4 of the container, whatever its text
TenseHeaderAny(container, tense) ==
    LET hits == {e \in 1..Len(container) : container[e].tag = "h4"} IN
    IF hits = {} THEN 0 ELSE Min(hits)

\* line 79, container.find("h4", string=tense): the first h4 of the
\* container whose string is the tense, or 0 for None
TenseHeader(container, tense) ==
    LET hits == {e \in 1..Len(container) :
                    container[e].tag = "h4" /\ container[e].text = tense} IN
    IF hits = {} THEN 0 ELSE Min(hits)

\* line 86, tense_header.find_next_sibling("p"): the first p after the
\* heading, or 0 for None
FindNextSiblingP(container, e) ==
    LET hits == {k \in (e + 1)..Len(container) : container[k].tag = "p"} IN
    IF hits = {} THEN 0 ELSE Min(hits)

\* lines 73-88: the containers in which the tense heading is found and a
\* paragraph follows it
WithParagraph(page, mode, tense) ==
    {c \in ModeHeaders(page, mode) :
        /\ TenseHeader(page[c], tense) # 0
        /\ FindNextSiblingP(page[c], TenseHeader(page[c], tense)) # 0}

\* lines 69-88: conjugation_p, the paragraph of the first such container
ConjugationP(page, mode, tense) ==
    LET c == Min(WithParagraph(page, mode, tense)) IN
    page[c][FindNextSiblingP(page[c], TenseHeader(page[c], tense))]

\* line 102, get_text(separator=" "): the text nodes of the part, joined
\* by the separator
RECURSIVE GetText(_)
GetText(nodes) ==
    IF nodes = <<>> THEN <<>>
    ELSE IF Len(nodes) = 1 THEN Head(nodes)
    ELSE Head(nodes) \o Blank \o GetText(Tail(nodes))

\* str.lstrip(), str.rstrip()
RECURSIVE LStrip(_)
LStrip(text) ==
    IF text # <<>> /\ Head(text) = " " THEN LStrip(Tail(text)) ELSE text

RECURSIVE RStrip(_)
RStrip(text) ==
    IF text # <<>> /\ text[Len(text)] = " "
    THEN RStrip(SubSeq(text, 1, Len(text) - 1)) ELSE text

\* line 102, str.strip()
Strip(text) == RStrip(LStrip(text))

\* lines 95-104: the stripped texts of the parts that are not empty
RECURSIVE CleanLines(_)
CleanLines(parts) ==
    IF parts = <<>> THEN <<>>
    ELSE (IF Strip(GetText(Head(parts))) # <<>>
          THEN <<Strip(GetText(Head(parts)))>> ELSE <<>>)
            \o CleanLines(Tail(parts))

\* ConjugacaoScraper.get_conjugations, lines 58-107: what the parse returns
PrimaryParse(page, mode, tense) ==
    IF ModeHeaders(page, mode) = {} THEN NoneForms
    ELSE IF WithParagraph(page, mode, tense) = {} THEN NoneForms
    ELSE [none |-> FALSE, lines |-> CleanLines(ConjugationP(page, mode, tense).parts)]

\* CooljugatorScraper.get_conjugations, line 86: the pronoun labels
pronouns == <<"eu", "tu", "ele/ela/voce", "nos", "vos", "eles/elas/voces">>

\* lines 71-90: the loop over the cells i..6; a line is the pronoun label
\* and the verb text of cell i
RECURSIVE BackupLines(_, _)
BackupLines(page, i) ==
    IF i > 6 THEN <<>>
    ELSE (IF page[i] = "form" THEN <<[pronoun |-> pronouns[i], verb |-> i]>> ELSE <<>>)
            \o BackupLines(page, i + 1)

\* CooljugatorScraper.get_conjugations, lines 66-99: what the parse returns
BackupParse(page) ==
    LET clean_lines == BackupLines(page, 1) IN
    IF clean_lines = <<>> THEN NoneForms ELSE [none |-> FALSE, lines |-> clean_lines]

\* a caller calls get_conjugations of an adapter; the site is in some state.
\* The backup returns None at once for a pair it does not map (lines 54-57)
GetConjugations ==
    /\ fetch.pc = "idle"
    /\ \E a \in {"primary", "backup"}, v \in Verbs, g \in Grammar :
        \E site \in Sites(a) :
            fetch' = [NoFetch EXCEPT !.adapter = a, !.verb = v, !.mode = g[1],
                                     !.tense = g[2], !.site = site,
                                     !.pc = IF a = "backup" /\ g \notin map_ids
                                            THEN "returned" ELSE "request"]
    /\ UNCHANGED <<db, tx, pending, lock, call, hist, calls, faults, job, batch, work, api, importer>>

\* the GET (scraper.py lines 45-50, backup_scraper.py lines 59-64): the
\* backup's argument list raises before the request is made; a failed
\* request returns None; otherwise the page is parsed
Request ==
    /\ fetch.pc = "request"
    /\ fetch' =
         IF fetch.adapter = "backup" /\ BackupRaises(fetch.mode, fetch.tense)
         THEN [fetch EXCEPT !.pc = "raised"]
         ELSE IF RequestFailed(fetch.site)
         THEN [fetch EXCEPT !.pc = "returned", !.requests = @ + 1]
         ELSE [fetch EXCEPT !.pc = "parse", !.requests = @ + 1]
    /\ UNCHANGED <<db, tx, pending, lock, call, hist, calls, faults, job, batch, work, api, importer>>

\* the page is parsed and the result returned
Parse ==
    /\ fetch.pc = "parse"
    /\ fetch' = [fetch EXCEPT !.pc = "returned",
                    !.result = IF fetch.adapter = "primary"
                               THEN PrimaryParse(fetch.site.page, fetch.mode, fetch.tense)
                               ELSE BackupParse(fetch.site.page)]
    /\ UNCHANGED <<db, tx, pending, lock, call, hist, calls, faults, job, batch, work, api, importer>>

(* ------------------------------- API v1 -------------------------------- *)
\* JSON values: a string, a number, an absent key
JStr(s) == [type |-> "str", val |-> s]
JNum(s) == [type |-> "num", val |-> s]
Missing == [type |-> "missing", val |-> ""]

\* a task of a posted list: a JSON object with its three keys, or a value
\* that is not an object
JTask(verb, mode, tense) == [type |-> "obj", verb |-> verb, mode |-> mode, tense |-> tense]
NotAnObject == [type |-> "str", verb |-> Missing, mode |-> Missing, tense |-> Missing]

\* dict.get(key, ""): the value, or the default for an absent key
Get(value) == IF value.type = "missing" THEN JStr("") ELSE value

\* Python truthiness of a JSON value
Truthy(value) ==
    IF value.type = "str" THEN value.val # ""
    ELSE IF value.type = "num" THEN value.val # "0"
    ELSE FALSE

\* InputValidator.MAX_VERB_LENGTH
MAX_VERB_LENGTH == 20

\* InputValidator.ALLOWED_MODES, ALLOWED_TENSES
ALLOWED_MODES == {"Indicativo", "Subjuntivo", "Imperativo"}
ALLOWED_TENSES ==
    {"Presente", "Preterito Imperfeito", "Preterito Perfeito",
     "Preterito Mais-que-perfeito", "Futuro do Presente", "Futuro do Preterito",
     "Futuro", "Afirmativo", "Negativo"}

\* len() of the verb strings the model posts
StrLen(s) ==
    IF s = "ir" THEN 2
    ELSE IF s = " ir" THEN 3
    ELSE IF s = "anticonstitucionalmente" THEN 23
    ELSE 5

\* re.match(VERB_PATTERN, s) for the verb strings the model posts: letters,
\* accents, blanks and hyphens only
MatchesPattern(s) == s \in {"falar", "ir", "anticonstitucionalmente", "FALAR", " ir"}

\* InputValidator.is_valid_verb: "true", "false", or "raise" when len() is
\* applied to a value that has no length (TypeError)
is_valid_verb(verb) ==
    IF ~Truthy(verb) THEN "false"
    ELSE IF verb.type # "str" THEN "raise"
    ELSE IF StrLen(verb.val) > MAX_VERB_LENGTH THEN "false"
    ELSE IF ~MatchesPattern(verb.val) THEN "false"
    ELSE "true"

\* InputValidator.is_valid_grammar
is_valid_grammar(mode, tense) ==
    IF mode.val \notin ALLOWED_MODES THEN "false"
    ELSE IF tense.val \notin ALLOWED_TENSES THEN "false"
    ELSE "true"

\* lines 103-111: the loop over the tasks; task.get on a value that is not
\* an object raises AttributeError
RECURSIVE ValidateTasks(_)
ValidateTasks(tasks) ==
    IF tasks = <<>> THEN "true"
    ELSE LET task == Head(tasks) IN
         IF task.type # "obj" THEN "raise"
         ELSE IF is_valid_verb(Get(task.verb)) # "true" THEN is_valid_verb(Get(task.verb))
         ELSE IF is_valid_grammar(Get(task.mode), Get(task.tense)) # "true" THEN "false"
         ELSE ValidateTasks(Tail(tasks))

\* InputValidator.validate_batch
validate_batch(tasks) == IF tasks = <<>> THEN "false" ELSE ValidateTasks(tasks)

\* the task values the model posts: three valid ones, one whose verb is in
\* upper case and one whose verb has a leading blank (the validator accepts
\* both), and one per way of being invalid
ValidTasks ==
    {JTask(JStr(Task(k).verb), JStr(Task(k).mode), JStr(Task(k).tense)) : k \in 1..3}
        \cup {JTask(JStr("FALAR"), JStr("Indicativo"), JStr("Presente")),
              JTask(JStr(" ir"), JStr("Indicativo"), JStr("Presente"))}

InvalidTasks ==
    {JTask(Missing, JStr("Indicativo"), JStr("Presente")),
     JTask(JStr("fal4r"), JStr("Indicativo"), JStr("Presente")),
     JTask(JStr("anticonstitucionalmente"), JStr("Indicativo"), JStr("Presente")),
     JTask(JNum("5"), JStr("Indicativo"), JStr("Presente")),
     JTask(JStr("falar"), JStr("Gerundio"), JStr("Presente")),
     JTask(JStr("falar"), JStr("Indicativo"), Missing),
     NotAnObject}

\* the task lists of up to n tasks
TaskLists(n) == UNION {[1..k -> ValidTasks \cup InvalidTasks] : k \in 0..n}

\* the request bodies: not JSON, a JSON array, an object whose 'tasks' is
\* absent, a string, or a list
Bodies(n) ==
    {[json |-> j, tasks |-> [type |-> "missing", items |-> <<>>]] :
        j \in {"malformed", "array", "object"}}
    \cup {[json |-> "object", tasks |-> [type |-> "str", items |-> <<>>]]}
    \cup {[json |-> "object", tasks |-> [type |-> "list", items |-> l]] : l \in TaskLists(n)}

\* api.py lines 191-205 and 267-292: the status the request is answered with
\* before a job is made, or 0 when the body is accepted. get_json raises
\* BadRequest for a body that is not JSON (answered with its code, 400);
\* an exception of the validator is answered with 500
Rejection(body) ==
    IF body.json = "malformed" THEN 400
    ELSE IF body.json # "object" THEN 400
    ELSE IF body.tasks.type # "list" THEN 400
    ELSE IF validate_batch(body.tasks.items) = "raise" THEN 500
    ELSE IF validate_batch(body.tasks.items) = "false" THEN 400
    ELSE 0

\* the tasks process_batch reads from the accepted list
TasksOf(items) ==
    [k \in 1..Len(items) |->
        [verb |-> items[k].verb.val, mode |-> items[k].mode.val,
         tense |-> items[k].tense.val]]

\* mutant: the job is added to the session but never committed
UncommittedJob(n) == NoJob

\* api.py lines 208-210: the BatchJob row is added and committed
CreatedJob(n) == NewJob(n)

\* BatchJob.to_dict
ToDict(id, j) ==
    [job_id |-> id, status |-> j.status,
     progress |-> [total |-> j.total_tasks, success |-> j.success_count,
                   failed |-> j.failed_count],
     created_at |-> TRUE, completed_at |-> j.completed_at]

\* POST /api/v1/batch, lines 191-212: the body is checked; a rejected
\* request is answered, for an accepted one the job is committed
BatchScrapeApi(n) ==
    /\ api.post.pc = "none"
    /\ \E body \in Bodies(n) :
        IF Rejection(body) # 0
        THEN /\ api' = [api EXCEPT !.post = [pc |-> "answered", body |-> body,
                                             code |-> Rejection(body), job_id |-> ""]]
             /\ UNCHANGED job
        ELSE /\ lock = 0
             /\ job' = CreatedJob(Len(body.tasks.items))
             /\ api' = [api EXCEPT !.post = [pc |-> "created", body |-> body,
                                             code |-> 0, job_id |-> ""]]
    /\ UNCHANGED <<db, tx, pending, lock, call, hist, calls, faults, batch, work, fetch, importer>>

\* lines 215-229: the background thread is started; it enters process_batch
\* with the job's id (line 223; verb_manager.py line 178)
RunBackgroundScrape ==
    /\ api.post.pc = "created"
    /\ batch.pc = "none"
    /\ LET tasks == TasksOf(api.post.body.tasks.items) IN
       batch' = [NoBatch EXCEPT !.pc = "processing", !.tasks = tasks, !.job_id = TRUE,
                                !.id = JobId,
                                !.outcome = [k \in 1..Len(tasks) |-> "queued"],
                                !.results.total = Len(tasks)]
    /\ api' = [api EXCEPT !.post.pc = "started"]
    /\ UNCHANGED <<db, tx, pending, lock, call, hist, calls, faults, job, work, fetch, importer>>

\* lines 232-239: the request is answered 202 with the job's id
Accepted ==
    /\ api.post.pc = "started"
    /\ api' = [api EXCEPT !.post.pc = "answered", !.post.code = 202,
                          !.post.job_id = JobId]
    /\ UNCHANGED <<db, tx, pending, lock, call, hist, calls, faults, job, batch, work, fetch, importer>>

\* GET /api/v1/batch/<id>, lines 254-262: a client that was given a job_id
\* polls with it, or with an id that was never issued
GetBatchStatus ==
    /\ api.post.code = 202
    /\ \E id \in {api.post.job_id, OtherId} :
        api' = [api EXCEPT !.status =
                    IF BatchJobGet(id) = NoJob
                    THEN [id |-> id, code |-> 404, body |-> <<>>]
                    ELSE [id |-> id, code |-> 200, body |-> ToDict(id, BatchJobGet(id))]]
    /\ UNCHANGED <<db, tx, pending, lock, call, hist, calls, faults, job, batch, work, fetch, importer>>

\* api.py line 43: request.args.get("dialect", "br").lower(); "" stands for
\* a parameter that is not given
Dialect(arg) == Lower(IF arg = "" THEN "br" ELSE arg)

\* mutant: no dialect skips a person
SkipNever(dialect) == FALSE

\* line 47: skip_tu_vos
skip_tu_vos(dialect) == dialect = "br"

\* verb.conjugations: the Conjugation rows of the verb, by rowid
RECURSIVE SortById(_)
SortById(rows) ==
    IF rows = {} THEN <<>>
    ELSE LET r == CHOOSE x \in rows : \A y \in rows : x.id <= y.id IN
         <<r>> \o SortById(rows \ {r})

\* lines 78-80 and 94-99: the names a Conjugation row resolves to, and the
\* entry it gets in the response
Entry(c) ==
    [mode |-> Row(db.modes, Row(db.tenses, c.tense_id).mode_id).name,
     tense |-> Row(db.tenses, c.tense_id).name,
     person |-> Row(db.persons, c.person_id).name,
     value |-> c.value]

\* lines 83-90: the row is skipped
Skipped(e, filter_mode, filter_tense, skip) ==
    IF filter_mode # "" /\ Lower(e.mode) # Lower(filter_mode) THEN TRUE
    ELSE IF filter_tense # "" /\ Lower(e.tense) # Lower(filter_tense) THEN TRUE
    ELSE skip /\ e.person \in {"tu", "vos"}

\* lines 76-100: the loop over verb.conjugations
RECURSIVE Gather(_, _, _, _)
Gather(conjs, filter_mode, filter_tense, skip) ==
    IF conjs = <<>> THEN <<>>
    ELSE (IF Skipped(Entry(Head(conjs)), filter_mode, filter_tense, skip)
          THEN <<>> ELSE <<Entry(Head(conjs))>>)
            \o Gather(Tail(conjs), filter_mode, filter_tense, skip)

\* GET /api/v1/verbs/<infinitive>, lines 39-119: 404 for an unknown verb,
\* otherwise the verb's conjugations that pass the filters. The handler
\* reads committed rows only; the model asks one request, once the caller's
\* calls are over (every store the caller commits is the store at the end
\* of a run)
GetVerb(maxcalls) ==
    /\ api.read.code = 0
    /\ calls = maxcalls
    /\ call[1].pc = "done"
    /\ \E infinitive \in {"falar", "ir", "FALAR"}, dialect \in {"", "br", "pt", "PT"},
       filter_mode \in {"", "imperativo"}, filter_tense \in {"", "Presente"} :
        LET args == [infinitive |-> infinitive, dialect |-> dialect,
                     mode |-> filter_mode, tense |-> filter_tense]
            verb == First({r \in db.verbs : r.infinitive = Lower(infinitive)})
            skip == skip_tu_vos(Dialect(dialect)) IN
        /\ api' = [api EXCEPT !.read =
                IF verb = NoRow
                THEN [args |-> args, code |-> 404, body |-> <<>>]
                ELSE [args |-> args, code |-> 200,
                      body |-> [infinitive |-> Row(db.verbs, verb).infinitive,
                                dialect |-> IF skip THEN "Brazilian (no tu/vos)"
                                            ELSE "European (standard)",
                                conjugations |->
                                    Gather(SortById({c \in db.conjs : c.verb_id = verb}),
                                           filter_mode, filter_tense, skip)]]]
        /\ UNCHANGED <<db, tx, pending, lock, call, hist, calls, faults, job, batch, work, fetch, importer>>

(* ------------------------ BulkImporter.process_chunk ------------------- *)
\* what a request of the importer is answered with: the request fails (a
\* timeout, a connection error), or a response with a status arrives
Transport == {"timeout", "connection"}

\* the answers to POST /api/v1/batch: a transport failure, a rejection, or
\* 202 with the job's id (api.py lines 232-239)
PostAnswers ==
    {[kind |-> k, status |-> 0, job_id |-> ""] : k \in Transport}
        \cup {[kind |-> "status", status |-> c, job_id |-> ""] : c \in {400, 401, 500}}
        \cup {[kind |-> "status", status |-> 202, job_id |-> JobId]}

\* the statuses a BatchJob is documented to take (verb.py line 87)
JobStatuses == {"pending", "processing", "completed", "failed"}

\* the answers to GET /api/v1/batch/<id>: a transport failure, an error
\* status, or 200 with the job's to_dict (verb.py lines 107-119), of which
\* the importer reads status and progress.failed
PollAnswers ==
    {[kind |-> k, status |-> 0, info |-> [status |-> "", failed |-> 0]] : k \in Transport}
        \cup {[kind |-> "status", status |-> c, info |-> [status |-> "", failed |-> 0]] :
                 c \in {404, 500}}
        \cup {[kind |-> "status", status |-> 200, info |-> [status |-> st, failed |-> f]] :
                 st \in JobStatuses, f \in 0..1}

\* the answers to GET /export-batch: a failure, an empty body, a CSV text
ExportAnswers == {"failure", "empty", "csv"}

\* lines 128-135: the POST or raise_for_status raised
SubmissionFailed(answer) ==
    IF answer.kind = "status" THEN RaiseForStatus(answer.status) ELSE TRUE

\* lines 139-140: the poll or raise_for_status raised
PollFailed(answer) ==
    IF answer.kind = "status" THEN RaiseForStatus(answer.status) ELSE TRUE

\* mutant: a job that is no longer pending counts as done
AfterPollHasty(answer) ==
    IF PollFailed(answer) THEN "poll"
    ELSE IF answer.info.status \in {"completed", "processing"} THEN "export"
    ELSE IF answer.info.status = "failed" THEN "returned"
    ELSE "poll"

\* lines 137-164: where the loop goes after an answer: on to the download
\* for 'completed', out for 'failed', round again otherwise (after the
\* sleep of line 161, or of line 164 when the poll raised)
AfterPoll(answer) ==
    IF PollFailed(answer) THEN "poll"
    ELSE IF answer.info.status = "completed" THEN "export"
    ELSE IF answer.info.status = "failed" THEN "returned"
    ELSE "poll"

\* lines 126-135: the chunk is posted; a failed submission returns False
Submit ==
    /\ importer.pc = "idle"
    /\ \E answer \in PostAnswers :
        importer' = [importer EXCEPT !.post = answer,
                        !.pc = IF SubmissionFailed(answer) THEN "returned" ELSE "poll",
                        !.ret = FALSE]
    /\ UNCHANGED <<db, tx, pending, lock, call, hist, calls, faults, job, batch, work,
                   fetch, api>>

\* lines 137-164: one round of the loop
Poll ==
    /\ importer.pc = "poll"
    /\ Len(importer.seen) < MaxPolls
    /\ \E answer \in PollAnswers :
        importer' = [importer EXCEPT
            !.seen = Append(@, answer),
            !.pc = AfterPoll(answer),
            !.failed_jobs = IF AfterPoll(answer) = "export" /\ answer.info.failed > 0
                            THEN @ \cup {importer.post.job_id} ELSE @,
            !.ret = FALSE]
    /\ UNCHANGED <<db, tx, pending, lock, call, hist, calls, faults, job, batch, work,
                   fetch, api>>

\* lines 154-155 and 97-120: fetch_chunk_csv asks for the chunk's CSV and
\* keeps a text that is not empty; whatever the request raises is caught;
\* process_chunk returns True
FetchChunkCsv ==
    /\ importer.pc = "export"
    /\ \E answer \in ExportAnswers :
        importer' = [importer EXCEPT !.exports = @ + 1,
                        !.chunks = IF answer = "csv" THEN @ + 1 ELSE @,
                        !.pc = "returned", !.ret = TRUE]
    /\ UNCHANGED <<db, tx, pending, lock, call, hist, calls, faults, job, batch, work,
                   fetch, api>>

(* --------------------------- specifications ---------------------------- *)
\* concurrent callers (web requests, pool workers), each on its own session
Next ==
    \E t \in Threads :
        \/ Call(t, MaxCalls, Warm)
        \/ Primary(t, MaxLines)
        \/ Backup(t, MaxLines)
        \/ VerbQuery(t)
        \/ VerbInsert(t)
        \/ VerbRollback(t)
        \/ VerbRequery(t)
        \/ ModeQuery(t)
        \/ ModeInsert(t)
        \/ TenseQuery(t)
        \/ TenseInsert(t)
        \/ PersonQuery(t)
        \/ PersonInsert(t)
        \/ ConjQuery(t)
        \/ Commit(t)
        \/ Except(t)
        \/ Return(t)

Spec == Init /\ [][Next]_vars

\* one caller, one call after the other: no statement ever waits or raises,
\* so the handlers are not part of this next-state relation
NextSeq ==
    \/ Call(1, SeqCalls, SeqCalls)
    \/ Primary(1, SeqLines)
    \/ Backup(1, SeqLines)
    \/ VerbQuery(1)
    \/ VerbInsert(1)
    \/ ModeQuery(1)
    \/ ModeInsert(1)
    \/ TenseQuery(1)
    \/ TenseInsert(1)
    \/ PersonQuery(1)
    \/ PersonInsert(1)
    \/ ConjQuery(1)
    \/ Commit(1)

SpecSeq == Init /\ [][NextSeq]_vars

\* one batch: the caller of process_batch and the workers of its pool
\* the steps of the caller of process_batch
BatchCaller(maxtasks) ==
    \/ StartBatch(maxtasks)
    \/ JobProcessing
    \/ Dispatch
    \/ Collect
    \/ Unwind
    \/ Complete

\* the steps of pool worker w
PoolWorker(w) ==
    \/ Take(w)
    \/ TaskCall(w)
    \/ TaskEnd(w)
    \/ Primary(w, BatchLines)
    \/ Backup(w, BatchLines)
    \/ VerbQuery(w)
    \/ VerbInsert(w)
    \/ VerbRollback(w)
    \/ VerbRequery(w)
    \/ ModeQuery(w)
    \/ ModeInsert(w)
    \/ TenseQuery(w)
    \/ TenseInsert(w)
    \/ PersonQuery(w)
    \/ PersonInsert(w)
    \/ ConjQuery(w)
    \/ Commit(w)
    \/ Except(w)

NextBatch ==
    \/ BatchCaller(MaxTasks)
    \/ \E w \in Workers : PoolWorker(w)

SpecBatch == Init /\ [][NextBatch]_vars

\* one batch of at most FairTasks tasks, every thread scheduled fairly: the
\* caller and each worker keep taking steps while they can
NextBatchFair ==
    \/ BatchCaller(FairTasks)
    \/ \E w \in Workers : PoolWorker(w)

SpecBatchFair ==
    /\ Init /\ [][NextBatchFair]_vars
    /\ WF_vars(BatchCaller(FairTasks))
    /\ \A w \in Workers : WF_vars(PoolWorker(w))

\* one caller, one call after the other, on a site whose pages change
NextRevised ==
    \/ Call(1, RevCalls, RevCalls)
    \/ PrimaryRevised(1, RevLines)
    \/ Backup(1, RevLines)
    \/ VerbQuery(1)
    \/ VerbInsert(1)
    \/ ModeQuery(1)
    \/ ModeInsert(1)
    \/ TenseQuery(1)
    \/ TenseInsert(1)
    \/ PersonQuery(1)
    \/ PersonInsert(1)
    \/ ConjQuery(1)
    \/ Commit(1)

SpecRevised == Init /\ [][NextRevised]_vars

\* the read API, asked while one caller scrapes, one call after the other
NextRead ==
    \/ Call(1, ReadCalls, ReadCalls)
    \/ Primary(1, ReadLines)
    \/ Backup(1, ReadLines)
    \/ VerbQuery(1)
    \/ VerbInsert(1)
    \/ ModeQuery(1)
    \/ ModeInsert(1)
    \/ TenseQuery(1)
    \/ TenseInsert(1)
    \/ PersonQuery(1)
    \/ PersonInsert(1)
    \/ ConjQuery(1)
    \/ Commit(1)
    \/ GetVerb(ReadCalls)

SpecRead == Init /\ [][NextRead]_vars

\* one call of process_chunk against the API
NextImport ==
    \/ Submit
    \/ Poll
    \/ FetchChunkCsv

SpecImport == Init /\ [][NextImport]_vars

\* one batch whose job_id may be absent or name no row
NextFrame ==
    \/ ProcessBatch(FrameTasks)
    \/ JobProcessing
    \/ Dispatch
    \/ Collect
    \/ Unwind
    \/ Complete
    \/ \E w \in Workers : PoolWorker(w)

SpecFrame == Init /\ [][NextFrame]_vars

\* one caller, one call after the other, and the seeding of the default
\* data before, between or after its calls
NextSeed ==
    \/ Call(1, SeedCalls, SeedCalls)
    \/ Primary(1, SeedLines)
    \/ Backup(1, SeedLines)
    \/ VerbQuery(1)
    \/ VerbInsert(1)
    \/ ModeQuery(1)
    \/ ModeInsert(1)
    \/ TenseQuery(1)
    \/ TenseInsert(1)
    \/ PersonQuery(1)
    \/ PersonInsert(1)
    \/ ConjQuery(1)
    \/ Commit(1)
    \/ SeedDefaultData

SpecSeed == Init /\ [][NextSeed]_vars

\* the batch API: one POST, the background thread it starts with the pool
\* of process_batch, and the polls of the client
NextApi ==
    \/ BatchScrapeApi(ApiTasks)
    \/ RunBackgroundScrape
    \/ Accepted
    \/ GetBatchStatus
    \/ JobProcessing
    \/ Dispatch
    \/ Collect
    \/ Unwind
    \/ Complete
    \/ \E w \in Workers : PoolWorker(w)

SpecApi == Init /\ [][NextApi]_vars

\* one call of an adapter's get_conjugations against a site
NextAdapter ==
    \/ GetConjugations
    \/ Request
    \/ Parse

SpecAdapter == Init /\ [][NextAdapter]_vars

(* ------------------------------- claims -------------------------------- *)
\* thread t has returned from a call with result r
Returned(t, r) == call[t].pc = "done" /\ call[t].ret = r

\* C1: the committed store never holds two Conjugation rows with the same
\* (verb, tense, person) triple, however concurrent calls interleave.
C1_NoDuplicateConjugation ==
    \A c1, c2 \in db.conjs :
        (c1.verb_id = c2.verb_id /\ c1.tense_id = c2.tense_id
            /\ c1.person_id = c2.person_id) => c1 = c2

\* an adapter answer that counts as failure: None or no line
AdapterFailed(f) == f.none \/ f.lines = <<>>

\* the arguments of the call of thread t
Args(t) == <<call[t].verb_infinitive, call[t].mode_name, call[t].tense_name>>

\* the committed Verb rows of an infinitive
VerbRows(v) == {r \in db.verbs : r.infinitive = v}

\* C2: concurrent calls for one infinitive leave exactly one Verb row for it:
\* never two rows with one infinitive, and one row once a call returned True.
C2_OneVerbRow ==
    /\ \A v \in Verbs : Cardinality(VerbRows(v)) <= 1
    /\ \A t \in Threads :
          Returned(t, TRUE) => Cardinality(VerbRows(call[t].verb_infinitive)) = 1

\* two calls for one infinitive raced on the INSERT and both returned True
C2_Witness ==
    /\ Returned(1, TRUE) /\ Returned(2, TRUE)
    /\ call[1].verb_infinitive = call[2].verb_infinitive
    /\ \E t \in Threads : hist[t].conflict = "verbs"

\* the store holds no two Mode rows of one name, no two Tense rows of one
\* (name, mode), no two Person rows of one name
NoDuplicateReference ==
    /\ \A a, b \in db.modes : a.name = b.name => a = b
    /\ \A a, b \in db.tenses : (a.name = b.name /\ a.mode_id = b.mode_id) => a = b
    /\ \A a, b \in db.persons : a.name = b.name => a = b

\* C3: while the threads run (or have just run) calls for different verbs
\* with the same mode and tense, the store holds no duplicate Mode, Tense or
\* Person row.
C3_NoDuplicateReference ==
    (/\ \A t \in Threads : call[t].pc # "idle"
     /\ \A t, u \in Threads :
           t # u => /\ call[t].verb_infinitive # call[u].verb_infinitive
                    /\ call[t].mode_name = call[u].mode_name
                    /\ call[t].tense_name = call[u].tense_name)
        => NoDuplicateReference

\* the committed Conjugations of verb v in tense n of mode m
ConjsOf(v, m, n) ==
    {c \in db.conjs :
        /\ \E r \in db.verbs : r.id = c.verb_id /\ r.infinitive = v
        /\ \E r \in db.tenses :
              /\ r.id = c.tense_id /\ r.name = n
              /\ \E q \in db.modes : q.id = r.mode_id /\ q.name = m}

\* the name of the Person a committed Conjugation points to
PersonName(c) == Row(db.persons, c.person_id).name

\* the call of thread t has resolved its forms and repeats the thread's
\* previous call: same arguments, same resolved forms
Repeats(t) ==
    /\ call[t].pc \notin {"idle", "primary", "backup"}
    /\ hist[t].prev.same
    /\ hist[t].prev.forms = call[t].forms

C5_ConflictNeverFails ==
    \A t \in Threads :
        (faults = 0 /\ Returned(t, FALSE)) => hist[t].exc # "unique"

\* C6: a call that returns False commits none of its rows: the committed
\* store changes only in the step in which a call commits and returns True,
\* and a call that returned False has left nothing in its session.
C6_FailureCommitsNothing ==
    /\ [][db' # db =>
            \E t \in Threads :
                call[t].pc = "commit" /\ call'[t].pc = "done" /\ call'[t].ret]_vars
    /\ [](\A t \in Threads :
            Returned(t, FALSE) => tx[t] = EmptyStore /\ pending[t] = <<>>)

\* a call returned False after it had inserted rows
C6_Witness ==
    \E t \in Threads : Returned(t, FALSE) /\ hist[t].wrote > 0

\* C7: when both adapters fail (the primary answers None or no line; the
\* backup was called and gave no forms) the call returns False and has
\* written nothing: no INSERT was issued, nothing waits in the session, and
\* the step that ends the backup call leaves the committed store as it was.
C7_TotalFailureWritesNothing ==
    /\ [](\A t \in Threads :
            (hist[t].bcalls = 1 /\ AdapterFailed(hist[t].primary)
                /\ AdapterFailed(hist[t].backup)) =>
                /\ Returned(t, FALSE)
                /\ hist[t].wrote = 0
                /\ tx[t] = EmptyStore /\ pending[t] = <<>>)
    /\ [][\A t \in Threads :
            (call[t].pc = "backup" /\ AdapterFailed(call'[t].forms)) => db' = db]_vars

\* both adapters failed on a store that already holds rows
C7_Witness ==
    /\ Returned(1, FALSE) /\ hist[1].bcalls = 1
    /\ AdapterFailed(hist[1].primary) /\ AdapterFailed(hist[1].backup)
    /\ db.verbs # {}

\* the rows of table conjs that the step adds
Added == db'.conjs \ db.conjs

C9_SixFormsInOrder ==
    \A t \in Threads :
        (Returned(t, TRUE) /\ hist[t].fresh /\ Len(call[t].forms.lines) = 6) =>
            LET rows == ConjsOf(Args(t)[1], Args(t)[2], Args(t)[3]) IN
            /\ Cardinality(rows) = 6
            /\ \A k \in 1..6 :
                  \E c \in rows :
                      PersonName(c) = person_names[k] /\ c.value = call[t].forms.lines[k]

\* six forms were stored for a second verb, beside the rows of a first
C9_Witness ==
    /\ Returned(1, TRUE) /\ hist[1].fresh /\ Len(call[1].forms.lines) = 6
    /\ Cardinality(db.verbs) = 2

\* the offset the claim states for a list and a mode
ClaimedOffset(lines, mode_name) ==
    IF Len(lines) = 5 /\ mode_name = "Imperativo" THEN 1 ELSE 0

\* C10: with five forms and mode "Imperativo", form i is stored under person
\* index i+1 and no Conjugation is created for "eu"; with any other list
\* length or mode, form i is stored under person index i.
C10_ImperativoOffset ==
    [][\A t \in Threads :
        call[t].pc = "commit" =>
            LET off == ClaimedOffset(call[t].forms.lines, call[t].mode_name) IN
            /\ \A c \in Added :
                  \E k \in 1..Len(call[t].forms.lines) :
                      /\ c.value = call[t].forms.lines[k]
                      /\ k + off <= Len(person_names)
                      /\ Row(db'.persons, c.person_id).name = person_names[k + off]
            /\ off = 1 => \A c \in Added : Row(db'.persons, c.person_id).name # "eu"
            /\ (hist[t].fresh /\ call'[t].ret) =>
                  \A k \in 1..Len(call[t].forms.lines) :
                      k + off <= Len(person_names) =>
                          \E c \in Added : c.value = call[t].forms.lines[k]]_vars

\* five Imperativo forms were stored on a fresh triple, the first under "tu"
C10_Witness ==
    /\ Returned(1, TRUE) /\ hist[1].fresh
    /\ Len(call[1].forms.lines) = 5 /\ call[1].mode_name = "Imperativo"
    /\ \E c \in ConjsOf(Args(1)[1], Args(1)[2], Args(1)[3]) :
          PersonName(c) = "tu" /\ c.value = call[1].forms.lines[1]

\* C11: whatever the length of the resolved list, no form is stored under a
\* person index above 5: the forms whose index (position plus offset) is
\* above 5 are dropped and only those, the call still returns True, and one
\* call adds at most 6 Conjugation rows.
C11_IndexClamp ==
    /\ [](\A r \in db.persons : r.sort_order <= 5 /\ r.name = person_names[r.sort_order + 1])
    /\ [](\A t \in Threads :
            \A k \in 1..Len(call[t].forms.lines) :
                k - 1 + offset(t) > 5 =>
                    \A c \in db.conjs : c.value # call[t].forms.lines[k])
    /\ [](\A t \in Threads :
            (call[t].pc = "done" /\ ~AdapterFailed(call[t].forms)) =>
                /\ call[t].ret
                /\ hist[t].fresh =>
                      \A k \in 1..Len(call[t].forms.lines) :
                          k - 1 + offset(t) <= 5 =>
                              \E c \in db.conjs : c.value = call[t].forms.lines[k])
    /\ [][Cardinality(Added) <= 6]_vars

\* a call with seven forms returned True and left six rows
C11_Witness ==
    /\ Returned(1, TRUE) /\ hist[1].fresh /\ Len(call[1].forms.lines) = 7
    /\ Cardinality(ConjsOf(Args(1)[1], Args(1)[2], Args(1)[3])) = 6

\* C12: calls that do not overlap leave at most one Mode row per name, one
\* Tense row per (name, mode) and one Person row per name: no step adds a
\* Mode, Tense or Person row whose key the store already holds.
C12_SequentialNoDuplicateReference ==
    /\ []NoDuplicateReference
    /\ [][/\ \A r \in db'.modes \ db.modes : \A q \in db.modes : q.name # r.name
          /\ \A r \in db'.tenses \ db.tenses :
                \A q \in db.tenses : q.name # r.name \/ q.mode_id # r.mode_id
          /\ \A r \in db'.persons \ db.persons :
                \A q \in db.persons : q.name # r.name]_vars

\* a second verb was stored under the mode and tense of the first
C12_Witness ==
    /\ Returned(1, TRUE) /\ Cardinality(db.verbs) = 2
    /\ Cardinality(db.modes) = 1 /\ Cardinality(db.tenses) = 1
    /\ \A v \in db.verbs : \E c \in db.conjs : c.verb_id = v.id
    /\ db.persons # {}

\* process_batch has ended: it returned its summary or raised
BatchEnded == batch.pc \in {"returned", "raised"}

\* the tasks of the batch whose call returned r ("true" or "false")
TasksReturning(r) == {k \in 1..Len(batch.outcome) : batch.outcome[k] = r}

\* C13: the summary process_batch returns has total = the number of tasks,
\* success = the number of tasks whose call returned True, failed = the
\* number whose call returned False, so success + failed = total; a job
\* given by id carries the same success and failed counts.
C13_BatchSummary ==
    batch.pc = "returned" =>
        /\ batch.results.total = Len(batch.tasks)
        /\ batch.results.success = Cardinality(TasksReturning("true"))
        /\ batch.results.failed = Cardinality(TasksReturning("false"))
        /\ batch.results.success + batch.results.failed = batch.results.total
        /\ batch.job_id =>
              /\ job.success_count = batch.results.success
              /\ job.failed_count = batch.results.failed

\* a batch with a job returned with successes and failures
C13_Witness ==
    /\ batch.pc = "returned" /\ batch.job_id
    /\ batch.results.success >= 2 /\ batch.results.failed >= 1

\* C14: every accepted batch job eventually is "completed" with its
\* completion time set, when every thread is scheduled fairly.
C14_JobEventuallyCompleted ==
    (job.status \in {"pending", "processing"})
        ~> (job.status = "completed" /\ job.completed_at)

\* C15: with a job given, the job is committed as "processing" before any
\* task of the batch starts, and it is "completed" only when every task has
\* returned.
C15_JobOrder ==
    batch.job_id =>
        /\ (Executing # {} \/ TasksReturning("true") # {} \/ TasksReturning("false") # {}
                \/ TasksReturning("raised") # {})
              => job.status \in {"processing", "completed"}
        /\ job.status = "completed" =>
              /\ \A k \in 1..Len(batch.outcome) : batch.outcome[k] \in {"true", "false"}
              /\ \A w \in Workers : work[w].stage = "idle"

\* the job is still "processing" while three tasks run and one has returned
C15_Witness ==
    /\ batch.job_id /\ job.status = "processing"
    /\ Cardinality(Executing) = 3
    /\ TasksReturning("true") # {}

\* C16: the status of a job changes only from "pending" to "processing" and
\* from "processing" to "completed", it is never "failed", and over the life
\* of the job it is changed exactly twice: once process_batch has ended,
\* both changes have been made.
C16_StatusChangedTwice ==
    /\ [][job'.status # job.status =>
            <<job.status, job'.status>> \in
                {<<"", "pending">>, <<"pending", "processing">>,
                 <<"processing", "completed">>}]_vars
    /\ [](job.status # "failed")
    /\ []((batch.job_id /\ BatchEnded) => job.changes = 2)

\* C17: in a batch, get_or_create_verb_data runs for every task of the
\* list whatever the outcomes of the other tasks: when process_batch has
\* ended no task was skipped or cancelled; and no step removes a committed
\* row.
C17_EveryTaskCalled ==
    /\ [](BatchEnded =>
            \A k \in 1..Len(batch.outcome) :
                batch.outcome[k] \in {"true", "false", "raised"})
    /\ [][/\ db.verbs \subseteq db'.verbs /\ db.modes \subseteq db'.modes
          /\ db.tenses \subseteq db'.tenses /\ db.persons \subseteq db'.persons
          /\ db.conjs \subseteq db'.conjs]_vars

\* C18: at most 3 tasks of a batch are executing (in the jitter sleep or
\* inside get_or_create_verb_data) at any time.
C18_PoolBound == Cardinality(Executing) <= 3

\* three tasks execute while a fourth waits in the queue
C18_Witness == Cardinality(Executing) = 3 /\ Queued # {}

\* C19: get_or_create_verb_data never raises to its caller: no call ends by
\* an exception.
C19_NeverRaises == \A t \in Sessions : call[t].pc # "raised"

\* C20: process_batch with an empty task list returns total 0, success 0,
\* failed 0, and a job given by id is "completed" with its completion time;
\* such a call always gets there and never raises.
C20_EmptyBatch ==
    /\ []((batch.pc = "returned" /\ batch.tasks = <<>>) =>
            /\ batch.results = [total |-> 0, success |-> 0, failed |-> 0]
            /\ batch.job_id =>
                  /\ job.status = "completed" /\ job.completed_at
                  /\ job.success_count = 0 /\ job.failed_count = 0)
    /\ []((batch.pc # "none" /\ batch.tasks = <<>>) => batch.pc # "raised")
    /\ (batch.pc = "processing" /\ batch.tasks = <<>>) ~> (batch.pc = "returned")

\* an empty batch with a job has returned
C20_Witness ==
    /\ batch.pc = "returned" /\ batch.tasks = <<>> /\ batch.job_id
    /\ job.status = "completed"

\* the committed Conjugation rows of the triple of row c
SameTriple(rows, c) ==
    {r \in rows : r.verb_id = c.verb_id /\ r.tense_id = c.tense_id
                    /\ r.person_id = c.person_id}

\* C21: no step of a sequence of calls deletes or changes a committed Verb,
\* Mode, Tense, Person or Conjugation row, and once a Conjugation exists for
\* a (verb, tense, person) no step adds another for it: the triple keeps its
\* one value, also when a later scrape of it resolves different forms.
C21_RowsNeverChange ==
    [][/\ db.verbs \subseteq db'.verbs /\ db.modes \subseteq db'.modes
       /\ db.tenses \subseteq db'.tenses /\ db.persons \subseteq db'.persons
       /\ db.conjs \subseteq db'.conjs
       /\ \A c \in db.conjs : SameTriple(db'.conjs, c) = {c}]_vars

\* a call that resolved a revised first line returned True, and the store
\* still holds the first edition's line for that person
C21_Witness ==
    /\ Returned(1, TRUE) /\ ~hist[1].fresh
    /\ call[1].forms.lines[1].src = "revised"
    /\ \E c \in ConjsOf(Args(1)[1], Args(1)[2], Args(1)[3]) :
          c.value.src = "primary" /\ c.value.k = 0

\* the adapter call has ended: it returned or it raised
FetchEnded == fetch.pc \in {"returned", "raised"}

\* the GET of the call meets a timeout, a connection error or a status
\* outside 200..299
NetworkFailure ==
    fetch.site.kind \in {"timeout", "connection"} \/ fetch.site.status \notin 200..299

\* C22: a call of either adapter's get_conjugations whose GET times out,
\* cannot connect or is answered with a non-2xx status returns None and
\* does not raise.
C22_NetworkFailureReturnsNone ==
    (FetchEnded /\ NetworkFailure) => (fetch.pc = "returned" /\ fetch.result.none)

\* the containers of the page that hold an h3 heading equal to the mode
HeadingContainers(page, mode) ==
    {c \in 1..Len(page) : \E e \in 1..Len(page[c]) : page[c][e] = H3(mode)}

\* container c holds an h4 heading equal to the tense
HasTenseHeading(page, c, tense) == \E e \in 1..Len(page[c]) : page[c][e] = H4(tense)

\* in container c a paragraph follows the first h4 heading equal to the tense
ParagraphFollows(page, c, tense) ==
    \E e \in 1..Len(page[c]) :
        /\ page[c][e] = H4(tense)
        /\ \A d \in 1..(e - 1) : page[c][d] # H4(tense)
        /\ \E k \in (e + 1)..Len(page[c]) : page[c][k].tag = "p"

\* the page has no heading of the mode, or no heading of the tense in the
\* mode's container, or no paragraph after the matched tense heading
DataBlockAbsent(page, mode, tense) ==
    \/ HeadingContainers(page, mode) = {}
    \/ \A c \in HeadingContainers(page, mode) : ~HasTenseHeading(page, c, tense)
    \/ \A c \in HeadingContainers(page, mode) : ~ParagraphFollows(page, c, tense)

\* C23: the primary adapter returns None, without raising, whenever the
\* page it got has no h3 heading equal to the mode, no h4 heading equal to
\* the tense inside the mode's container, or no paragraph following the
\* matched tense heading.
C23_AbsentBlockReturnsNone ==
    (/\ fetch.adapter = "primary" /\ FetchEnded /\ fetch.site.status = 200
     /\ DataBlockAbsent(fetch.site.page, fetch.mode, fetch.tense))
        => (fetch.pc = "returned" /\ fetch.result.none)

\* the primary returned None for a page that has the mode and the tense
\* heading in one container and a paragraph in another, but no paragraph
\* after the tense heading
C23_Witness ==
    /\ fetch.adapter = "primary" /\ fetch.pc = "returned" /\ fetch.site.status = 200
    /\ fetch.requests = 1 /\ fetch.result.none
    /\ \E c \in HeadingContainers(fetch.site.page, fetch.mode) :
          HasTenseHeading(fetch.site.page, c, fetch.tense)
    /\ \A c \in HeadingContainers(fetch.site.page, fetch.mode) :
          ~ParagraphFollows(fetch.site.page, c, fetch.tense)
    /\ \E c \in 1..Len(fetch.site.page) :
          \E e \in 1..Len(fetch.site.page[c]) : fetch.site.page[c][e].tag = "p"

\* C24: get_conjugations of an adapter never returns an empty list: when
\* the matched data block yields no non-empty line it returns None.
C24_NeverEmptyList ==
    fetch.pc = "returned" => (fetch.result.none \/ Len(fetch.result.lines) > 0)

\* the (mode, tense) pairs the backup adapter's table lists
MappedPairs ==
    {<<"Indicativo", "Presente">>, <<"Indicativo", "Preterito Imperfeito">>,
     <<"Indicativo", "Preterito Perfeito">>,
     <<"Indicativo", "Preterito Mais-que-perfeito">>,
     <<"Indicativo", "Futuro do Presente">>, <<"Indicativo", "Futuro do Preterito">>,
     <<"Subjuntivo", "Presente">>, <<"Subjuntivo", "Futuro">>}

\* C25: for a pair the backup adapter maps and a page it is answered with,
\* the adapter returns, for each position i in 1..6 whose cell and verb
\* element are on the page, the line of canonical pronoun i and the verb
\* text of cell i, and the lines are in ascending order of i.
C25_BackupLines ==
    (/\ fetch.adapter = "backup" /\ FetchEnded /\ fetch.site.status = 200
     /\ <<fetch.mode, fetch.tense>> \in MappedPairs)
        => /\ fetch.pc = "returned"
           /\ \A i \in 1..6 :
                 fetch.site.page[i] = "form" =>
                     \E k \in 1..Len(fetch.result.lines) :
                         fetch.result.lines[k] = [pronoun |-> person_names[i], verb |-> i]
           /\ \A k, l \in 1..Len(fetch.result.lines) :
                 k < l => fetch.result.lines[k].verb < fetch.result.lines[l].verb

\* C26: once POST /api/v1/batch has answered 202 with a job_id, every poll
\* of GET /api/v1/batch/<job_id> is answered 200 with the job's state
\* (job_id, status, progress, created_at, completed_at), never 404,
\* wherever the background thread stands.
C26_IssuedJobReadable ==
    (api.status.code # 0 /\ api.status.id = api.post.job_id) =>
        /\ api.status.code = 200
        /\ api.status.body.job_id = api.post.job_id
        /\ api.status.body.status \in {"pending", "processing", "completed"}
        /\ api.status.body.progress.total = Len(api.post.body.tasks.items)
        /\ api.status.body.progress.success + api.status.body.progress.failed
              <= api.status.body.progress.total
        /\ api.status.body.created_at
        /\ api.status.body.completed_at <=> api.status.body.status = "completed"

\* a poll was answered with the pending job, before the background thread
\* had touched it; the thread has since raised
C26_Witness ==
    /\ api.status.code = 200 /\ api.status.id = JobId
    /\ api.status.body.status = "pending"
    /\ batch.pc = "raised"

\* the text of a posted value is a verb the validator accepts
ValidVerb(value) == value.type = "str" /\ value.val \in {"falar", "ir", "FALAR", " ir"}

\* a posted task passes verb and grammar validation
ValidTask(task) ==
    /\ task.type = "obj" /\ ValidVerb(task.verb)
    /\ task.mode.type = "str" /\ task.mode.val \in {"Indicativo", "Imperativo"}
    /\ task.tense.type = "str" /\ task.tense.val \in {"Presente", "Afirmativo"}

\* the body is not a JSON object, its 'tasks' is not a list, the list is
\* empty, or a task of it fails validation
InvalidBody(body) ==
    \/ body.json # "object"
    \/ body.tasks.type # "list"
    \/ body.tasks.items = <<>>
    \/ \E k \in 1..Len(body.tasks.items) : ~ValidTask(body.tasks.items[k])

\* no BatchJob row exists and no task has run or runs
NothingStarted ==
    /\ job = NoJob /\ batch = NoBatch
    /\ \A w \in Workers : work[w] = IdleWorker /\ call[w] = IdleCall

\* C27: POST /api/v1/batch answers 400, creates no BatchJob row and runs no
\* task when the body is not a JSON object, 'tasks' is not a list, the list
\* is empty, or a task fails verb or grammar validation.
C27_InvalidBatchRejected ==
    (api.post.pc # "none" /\ InvalidBody(api.post.body)) =>
        (api.post.pc = "answered" /\ api.post.code = 400 /\ NothingStarted)

\* C28: for a (mode, tense) pair that is not in the backup adapter's table
\* (every Imperativo tense among them) the backup adapter returns None
\* and issues no HTTP request.
C28_UnmappedNoRequest ==
    (/\ fetch.adapter = "backup" /\ FetchEnded
     /\ (fetch.mode = "Imperativo" \/ <<fetch.mode, fetch.tense>> \notin MappedPairs))
        => (fetch.pc = "returned" /\ fetch.result.none /\ fetch.requests = 0)

\* the backup returned None for an Imperativo pair without a request, while
\* the site would have answered with a page that has forms
C28_Witness ==
    /\ fetch.adapter = "backup" /\ fetch.pc = "returned" /\ fetch.mode = "Imperativo"
    /\ fetch.result.none /\ fetch.requests = 0
    /\ fetch.site.status = 200 /\ \E i \in 1..6 : fetch.site.page[i] = "form"

\* the committed Conjugation rows of the verb the read asks for
StoredOf(infinitive) ==
    {c \in db.conjs : Row(db.verbs, c.verb_id).infinitive = Lower(infinitive)}

\* the entries of a response, as a set
Entries(body) == {body.conjugations[k] : k \in 1..Len(body.conjugations)}

\* C29: GET /api/v1/verbs/<infinitive> without mode or tense filter returns,
\* for dialect 'br' or no dialect, exactly the stored conjugations of the
\* verb whose person is neither 'tu' nor 'vos', each once, and for dialect
\* 'pt' all of them; with a filter it returns a part of these; and the
\* request leaves the stored rows as they are.
C29_DialectFilter ==
    [][api'.read # api.read =>
        LET r == api'.read
            stored == StoredOf(r.args.infinitive)
            kept == IF r.args.dialect \in {"", "br"}
                    THEN {c \in stored : Row(db.persons, c.person_id).name \notin {"tu", "vos"}}
                    ELSE stored IN
        /\ db' = db
        /\ r.code = 200 =>
              /\ Entries(r.body) \subseteq {Entry(c) : c \in kept}
              /\ Len(r.body.conjugations) = Cardinality(Entries(r.body))
              /\ (r.args.mode = "" /\ r.args.tense = "") =>
                    Entries(r.body) = {Entry(c) : c \in kept}]_vars

\* dialect 'br' returned four of the six stored conjugations of a verb
C29_Witness ==
    /\ api.read.code = 200 /\ api.read.args.dialect = "br"
    /\ api.read.args.mode = "" /\ api.read.args.tense = ""
    /\ Len(api.read.body.conjugations) = 4
    /\ Cardinality(StoredOf(api.read.args.infinitive)) = 6

\* C30: within one call the primary adapter is called exactly once and the
\* backup adapter at most once, the backup only after the primary has
\* failed; no adapter is called again, and the call issues at most two
\* HTTP GETs.
C30_FailoverChain ==
    \A t \in Threads :
        /\ hist[t].pcalls <= 1 /\ hist[t].bcalls <= 1
        /\ call[t].pc \notin {"idle", "primary"} => hist[t].pcalls = 1
        /\ hist[t].bcalls = 1 => (hist[t].pcalls = 1 /\ AdapterFailed(hist[t].primary))
        /\ (call[t].pc \notin {"idle", "primary", "backup"} /\ hist[t].bcalls = 0)
              => ~AdapterFailed(hist[t].primary)
        /\ hist[t].gets <= 2

\* a call ended after the primary and then the backup were called once each
C30_Witness ==
    /\ call[1].pc = "done" /\ hist[1].pcalls = 1 /\ hist[1].bcalls = 1
    /\ hist[1].gets >= 1 /\ db.conjs # {}

\* the primary adapter returned a list of lines
PrimaryReturnedLines ==
    fetch.adapter = "primary" /\ fetch.pc = "returned" /\ ~fetch.result.none

\* the mode a block of a container stands under: the text of the last h3
\* before the block's heading, "" when no h3 comes before it
ModeAbove(container, e) ==
    LET hs == {k \in 1..(e - 1) : container[k].tag = "h3"} IN
    IF hs = {} THEN ""
    ELSE container[CHOOSE k \in hs : \A j \in hs : j <= k].text

\* the tense headings of the page whose next paragraph gives the returned
\* lines, and the modes they stand under
ReturnedBlocks ==
    {<<c, e>> \in (1..Len(fetch.site.page)) \X (1..FlatElements) :
        /\ e <= Len(fetch.site.page[c])
        /\ fetch.site.page[c][e] = H4(fetch.tense)
        /\ \E k \in (e + 1)..Len(fetch.site.page[c]) :
              /\ fetch.site.page[c][k].tag = "p"
              /\ \A j \in (e + 1)..(k - 1) : fetch.site.page[c][j].tag # "p"
              /\ CleanLines(fetch.site.page[c][k].parts) = fetch.result.lines}

\* C31: the lines the primary adapter returns never come only from tense
\* blocks that stand under the heading of another mode than the requested
\* one, also when the headings of both modes are children of one parent.
C31_BlockOfRequestedMode ==
    (PrimaryReturnedLines /\ fetch.result.lines # <<>>) =>
        \E b \in ReturnedBlocks :
            ModeAbove(fetch.site.page[b[1]], b[2]) \in {"", fetch.mode}

\* the characters of a text that are not whitespace, in order
RECURSIVE Words(_)
Words(text) ==
    IF text = <<>> THEN <<>>
    ELSE (IF Head(text) = " " THEN <<>> ELSE <<Head(text)>>) \o Words(Tail(text))

\* the texts of a sequence, one after the other
RECURSIVE Concat(_)
Concat(texts) == IF texts = <<>> THEN <<>> ELSE Head(texts) \o Concat(Tail(texts))

\* the paragraphs of the page
Paragraphs ==
    {fetch.site.page[c][e] : <<c, e>> \in
        {ce \in (1..Len(fetch.site.page)) \X (1..FlatElements) :
            /\ ce[2] <= Len(fetch.site.page[ce[1]])
            /\ fetch.site.page[ce[1]][ce[2]].tag = "p"}}

\* the line is not empty and neither starts nor ends with whitespace
Trimmed(line) == line # <<>> /\ Head(line) # " " /\ line[Len(line)] # " "

\* the line has no two whitespace characters in a row
NoWhitespaceRun(line) ==
    \A k \in 1..(Len(line) - 1) : ~(line[k] = " " /\ line[k + 1] = " ")

\* the lines hold the words of a paragraph of the page, in its order
SourceOrder(lines) ==
    \E p \in Paragraphs :
        Words(Concat(lines)) = Words(Concat([k \in 1..Len(p.parts) |-> Concat(p.parts[k])]))

\* C33: every line the primary adapter returns is non-empty, has no leading
\* or trailing whitespace and no run of two or more whitespace characters,
\* and the lines are in the order of the source paragraph.
C33_NormalizedLines ==
    PrimaryReturnedLines =>
        /\ \A k \in 1..Len(fetch.result.lines) :
              Trimmed(fetch.result.lines[k]) /\ NoWhitespaceRun(fetch.result.lines[k])
        /\ fetch.result.lines # <<>> => SourceOrder(fetch.result.lines)

\* C32: every Person row has sort_order equal to the index (0 to 5) of its
\* name in the canonical list, whichever of get_or_create_verb_data and
\* seed_default_data created it and in whatever order they ran.
C32_SortOrderIsIndex ==
    \A p \in db.persons :
        \E k \in 1..Len(person_names) : person_names[k] = p.name /\ p.sort_order = k - 1

\* verb_manager.py lines 125-134: the name of the Person under which the
\* loop of get_or_create_verb_data stores line k (from 1) of a list
StoredUnder(lines, mode_name, k) == person_names[(k - 1) + Offset(lines, mode_name) + 1]

References(store, c) ==
    /\ \E r \in store.verbs : r.id = c.verb_id
    /\ \E r \in store.tenses : r.id = c.tense_id
    /\ \E r \in store.persons : r.id = c.person_id

\* the call of thread t goes on after its Verb insert failed and the
\* re-read found no Verb row
WithoutVerb(t) ==
    /\ call[t].verb = NoRow
    /\ call[t].pc \in {"modeq", "modeins", "tenseq", "tenseins", "personq", "personins",
                       "conjq", "commit", "except"}

\* C35: every committed Conjugation row references an existing Verb, Tense
\* and Person row, and a call whose Verb insert failed and whose re-read
\* found no Verb row commits nothing: no step it takes changes the
\* committed store.
C35_ReferencesExist ==
    /\ [](\A c \in db.conjs : References(db, c))
    /\ [][\A t \in Threads :
            (WithoutVerb(t) /\ call'[t] # call[t]) => db' = db]_vars

\* a call went on without a Verb row, met the NOT NULL constraint when its
\* Conjugation was flushed and returned False, while the store holds the
\* Conjugations another call committed
C35_Witness ==
    \E t \in Threads :
        /\ call[t].pc = "done" /\ ~call[t].ret /\ call[t].verb = NoRow
        /\ hist[t].exc = "notnull"
        /\ db.conjs # {}

\* a job state as a poller reads it is consistent: before completion the
\* counts are 0 and there is no completion time; at completion the counts
\* add up to the total and the completion time is set
Consistent(status, total, success, failed, completed_at) ==
    /\ status \in {"pending", "processing"} =>
          (success = 0 /\ failed = 0 /\ ~completed_at)
    /\ status = "completed" => (success + failed = total /\ completed_at)

\* C36: in every state a poller can read, a job that is 'pending' or
\* 'processing' has success and failed counts 0 and no completed_at, and a
\* job created by POST /api/v1/batch that is 'completed' has
\* success + failed = total_tasks and completed_at set; the same holds of
\* every answer a poll was given.
C36_JobStateConsistent ==
    /\ job # NoJob =>
          Consistent(job.status, job.total_tasks, job.success_count,
                     job.failed_count, job.completed_at)
    /\ api.status.code = 200 =>
          Consistent(api.status.body.status, api.status.body.progress.total,
                     api.status.body.progress.success, api.status.body.progress.failed,
                     api.status.body.completed_at)

\* a poll read a completed job of two tasks, one that succeeded and one
\* that failed
C36_Witness ==
    /\ api.status.code = 200 /\ api.status.body.status = "completed"
    /\ api.status.body.progress = [total |-> 2, success |-> 1, failed |-> 1]
    /\ api.status.body.completed_at

\* C37: every Verb row's infinitive is lower-case and trimmed, whichever
\* entry path created it, so no two Verb rows differ only by letter case
\* or surrounding whitespace.
C37_InfinitiveNormalized ==
    /\ \A r \in db.verbs : r.infinitive = Lower(StrStrip(r.infinitive))
    /\ \A a, b \in db.verbs :
          Lower(StrStrip(a.infinitive)) = Lower(StrStrip(b.infinitive)) => a = b

\* the job_id of the running batch is absent or names no row of the table
NamesNoJob == batch.pc # "none" /\ (batch.id # JobId \/ job = NoJob)

\* C38: process_batch changes no BatchJob row other than the one its
\* job_id names: when the job_id is absent or names no existing job, no
\* step creates or changes a BatchJob row; and the call still runs every
\* task and returns the counts.
C38_OnlyNamedJobChanges ==
    /\ [][NamesNoJob => job' = job]_vars
    /\ []((NamesNoJob /\ BatchEnded) =>
            /\ batch.pc = "returned"
            /\ \A k \in 1..Len(batch.outcome) : batch.outcome[k] \in {"true", "false"}
            /\ batch.results =
                  [total |-> Len(batch.tasks),
                   success |-> Cardinality(TasksReturning("true")),
                   failed |-> Cardinality(TasksReturning("false"))])

\* the statuses the polls of process_chunk have read, in order ("" for a
\* poll that raised)
Observed ==
    [k \in 1..Len(importer.seen) |->
        IF importer.seen[k].kind = "status" /\ importer.seen[k].status = 200
        THEN importer.seen[k].info.status ELSE ""]

\* the status the last poll has read
LastObserved == IF Observed = <<>> THEN "" ELSE Observed[Len(Observed)]

\* the POST of process_chunk failed
PostFailed ==
    importer.pc # "idle"
        /\ (importer.post.kind \in {"timeout", "connection"}
                \/ importer.post.status \notin 200..299)

\* C39: process_chunk returns True only after it has observed status
\* 'completed' for the job it submitted, and asks for the chunk's CSV only
\* after that observation; it returns False when the submission fails or
\* status 'failed' is observed, and keeps polling in every other case.
C39_ProcessChunk ==
    /\ (importer.pc = "returned" /\ importer.ret) => LastObserved = "completed"
    /\ importer.exports > 0 => LastObserved = "completed"
    /\ PostFailed => (importer.pc = "returned" /\ ~importer.ret /\ importer.seen = <<>>)
    /\ LastObserved = "failed" => (importer.pc = "returned" /\ ~importer.ret)
    /\ (importer.pc = "returned" /\ ~importer.ret) =>
          (PostFailed \/ LastObserved = "failed")
    /\ (importer.pc \notin {"idle", "returned"} /\ ~PostFailed
            /\ LastObserved \notin {"completed", "failed"}) => importer.pc = "poll"
    /\ \A k \in 1..(Len(Observed) - 1) : Observed[k] \notin {"completed", "failed"}

\* process_chunk returned True after a poll that raised, a poll that read
\* 'processing' and a poll that read 'completed', and asked once for the CSV
C39_Witness ==
    /\ importer.pc = "returned" /\ importer.ret
    /\ Observed = <<"", "processing", "completed">>
    /\ importer.exports = 1

====
